---- MODULE Spec2Model ----
(***************************************************************************)
(* The persistence side of bsky-firehose: PersistenceWorker.run and        *)
(* process_message (app/workers/persistence.py), the repositories          *)
(* (app/repositories/base.py, app/repositories/bluesky.py), the tables     *)
(* (app/models/db/bluesky.py) and the event envelope                       *)
(* (app/models/jetstream_types.py).                                        *)
(*                                                                         *)
(* The database is three tables of rows.  A row is a record; its id is the *)
(* position at which it was inserted (uuid4 in the code: only its          *)
(* uniqueness is used).  Columns that are plain copies of an event field   *)
(* and take the same path as a modelled column are left out: cid, rkey,    *)
(* collection, record_type, bsky_created_at, root_cid, root_uri,           *)
(* parent_cid (as rev, text and parent_uri), bsky_timestamp (as seq),      *)
(* time_us (as did).  Wall-clock values (created_at, updated_at, the value *)
(* of deleted_at, error_time) are one constant, Now.                       *)
(*                                                                         *)
(* The topic is one log: run() walks the partitions of a poll result one   *)
(* after the other, so a poll result is the sequence of its messages in    *)
(* that order.                                                             *)
(***************************************************************************)
EXTENDS Integers, Sequences, FiniteSets, TLC

\* ------------------------------------------------------------ bounds
\* Events on the topic.
MaxLog == 2
\* Records one getmany() call may return.
MaxPoll == 2
\* Process restarts (start_persistence_worker run again after a crash).
MaxCrash == 2
\* Failed cycles counted before the model stops counting.
MaxErrors == 6

\* ------------------------------------------------------------ constants of run()
max_consecutive_errors == 5
max_backoff_time == 60

\* ------------------------------------------------------------ values
\* Python None for an optional object or dict.
None == [none |-> TRUE]
\* Python None / SQL NULL for a scalar (string) column.
NULL == "NULL"
\* datetime.now(): every wall-clock value.
Now == "now"
\* A consumer group without a committed offset.
NoOffset == -1

Min(S) == CHOOSE x \in S : \A y \in S : x <= y
Max2(a, b) == IF a >= b THEN a ELSE b
Min2(a, b) == IF a <= b THEN a ELSE b

\* A dict: a function from keys to values.  {**a, **b}.
EmptyDict == [k \in {} |-> NULL]
DictMerge(a, b) == [k \in (DOMAIN a) \cup (DOMAIN b) |-> IF k \in DOMAIN b THEN b[k] ELSE a[k]]

\* ------------------------------------------------------------ the envelope
Kinds == {"commit", "identity", "account"}
Operations == {"create", "update", "delete"}

D1 == "did:plc:aaaaaaaaaaaaaaaa12345678"
\* A placeholder made of the first 8 characters: f"unknown-{did[:8]}".
UnknownHandleFirst8(did) == IF did = D1 THEN "unknown-did:plc:" ELSE "unknown-????????"
\* f"unknown-{did[-8:]}" and f"user_{did[-8:]}".
UnknownHandle(did) == IF did = D1 THEN "unknown-12345678" ELSE "unknown-????????"

UserHandle(did) == IF did = D1 THEN "user_12345678" ELSE "user_????????"

FeedPost == "app.bsky.feed.post"
FeedLike == "app.bsky.feed.like"
\* collection.startswith("app.bsky.feed.")
IsFeedCollection(collection) == collection \in {FeedPost, FeedLike}

\* Record: text, langs, reply (its parent uri here), and the open bag of extra fields.
Rec(text, langs, reply, extra) == [text |-> text, langs |-> langs, reply |-> reply, extra |-> extra]
CommitOf(rev, operation, collection, rkey, record) ==
    [rev |-> rev, operation |-> operation, collection |-> collection, rkey |-> rkey, record |-> record]
MsgCommit(did, c) == [did |-> did, kind |-> "commit", commit |-> c, identity |-> None, account |-> None]
MsgIdentity(did, handle, seq) ==
    [did |-> did, kind |-> "identity", commit |-> None,
     identity |-> [did |-> did, handle |-> handle, seq |-> seq], account |-> None]
MsgAccount(did, active, seq) ==
    [did |-> did, kind |-> "account", commit |-> None, identity |-> None,
     account |-> [active |-> active, did |-> did, seq |-> seq]]

\* What a bus record carries: bytes that are JSON or not, and the object they decode to.
Wire(obj) == [json |-> TRUE, obj |-> obj]
NotJson == [json |-> FALSE, obj |-> None]

\* Message.model_validate: kind and commit.operation are Literal fields.
Validates(obj) ==
    /\ obj.kind \in Kinds
    /\ obj.commit # None => obj.commit.operation \in Operations

\* PersistenceWorker.deserialize_message: None when json.loads or validation raises.
deserialize_message(w) ==
    IF ~w.json THEN None
    ELSE IF Validates(w.obj) THEN w.obj
    ELSE None

\* The events the bus may carry.
IdentityNew == Wire(MsgIdentity(D1, "alice.test", 2))
IdentityOld == Wire(MsgIdentity(D1, "bob.test", 1))
AccountOff == Wire(MsgAccount(D1, FALSE, 2))
PostCreate == Wire(MsgCommit(D1, CommitOf("rev1", "create", FeedPost, "rk1",
                  Rec("hello", "en", "at://parent", [embed |-> "e1"]))))
PostUpdate == Wire(MsgCommit(D1, CommitOf("rev2", "update", FeedPost, "rk1",
                  Rec("edited", "en", NULL, EmptyDict))))
\* A delete as the firehose sends it: no record.
PostDelete == Wire(MsgCommit(D1, CommitOf("rev3", "delete", FeedPost, "rk1", None)))
\* A delete that carries a record.
PostDeleteRec == Wire(MsgCommit(D1, CommitOf("rev3", "delete", FeedPost, "rk1",
                  Rec(NULL, NULL, NULL, EmptyDict))))
\* A record without text (a like): bluesky_post.text is NOT NULL.
LikeCreate == Wire(MsgCommit(D1, CommitOf("rev4", "create", FeedLike, "rk1",
                  Rec(NULL, NULL, NULL, [subject_uri |-> "at://liked"]))))

Events == {IdentityNew, IdentityOld, AccountOff, PostCreate, PostUpdate,
           PostDelete, PostDeleteRec, LikeCreate, NotJson}

RECURSIVE SeqsUpTo(_)
SeqsUpTo(n) ==
    IF n = 0 THEN {<<>>}
    ELSE LET shorter == SeqsUpTo(n - 1)
         IN shorter \cup {Append(s, e) : s \in {x \in shorter : Len(x) = n - 1}, e \in Events}

\* ------------------------------------------------------------ tables
EmptyTables == [users |-> <<>>, posts |-> <<>>, raw |-> <<>>]

\* Columns of RawMessage (with TimestampMixin).
RawMessageColumns == {"id", "did", "time_us", "kind", "raw_data", "processed", "created_at", "updated_at"}
BlueskyUserColumns == {"id", "did", "handle", "active", "seq", "bsky_timestamp", "created_at", "updated_at"}
BlueskyPostColumns == {"id", "cid", "uri", "text", "langs", "record_type", "bsky_created_at", "rev", "rkey",
                       "collection", "operation", "user_id", "parent_cid", "parent_uri", "root_cid",
                       "root_uri", "additional_data", "created_at", "updated_at"}

\* The result of a repository call: it returned (ok) with tables t and entity row,
\* or it raised.
Ok(t, row) == [ok |-> TRUE, t |-> t, row |-> row]
Raised(t) == [ok |-> FALSE, t |-> t, row |-> None]

\* unique=True on bluesky_user.did and bluesky_post.uri; nullable=False on
\* bluesky_user.handle, bluesky_post.text and bluesky_post.langs.
UsersOk(rows) ==
    /\ \A i, j \in 1..Len(rows) : rows[i].did = rows[j].did => i = j
    /\ \A i \in 1..Len(rows) : rows[i].handle # NULL
PostsOk(rows) ==
    /\ \A i, j \in 1..Len(rows) : rows[i].uri = rows[j].uri => i = j
    /\ \A i \in 1..Len(rows) : rows[i].text # NULL /\ rows[i].langs # NULL
    /\ \A i \in 1..Len(rows) : rows[i].operation \in Operations

\* BaseRepository.get_by(**{field: value}): .first()
GetBy(rows, field, value) ==
    LET hits == {i \in 1..Len(rows) : rows[i][field] = value}
    IN IF hits = {} THEN None ELSE rows[Min(hits)]

\* UPDATE ... WHERE id = :id ... RETURNING: the rows after the statement.
UpdateRows(rows, id, obj_in) ==
    [i \in 1..Len(rows) |-> IF rows[i].id = id THEN DictMerge(rows[i], obj_in) ELSE rows[i]]

Columns(table) ==
    CASE table = "users" -> BlueskyUserColumns
      [] table = "posts" -> BlueskyPostColumns
      [] table = "raw" -> RawMessageColumns

TableOk(table, rows) ==
    CASE table = "users" -> UsersOk(rows)
      [] table = "posts" -> PostsOk(rows)
      [] table = "raw" -> TRUE

\* Column defaults of a new row: active default=True, processed default=False,
\* the nullable reply and additional_data columns.
ColumnDefaults(table) ==
    CASE table = "users" -> [active |-> TRUE]
      [] table = "posts" -> [parent_uri |-> NULL, additional_data |-> None]
      [] table = "raw" -> [processed |-> FALSE]

\* BaseRepository.create: model(**obj_in), add, flush (the INSERT, where the
\* constraints are checked), refresh.
Create(t, table, obj_in) ==
    LET row == DictMerge(DictMerge(ColumnDefaults(table), [id |-> Len(t[table]) + 1]), obj_in)
        rows == Append(t[table], row)
    IN IF ~(DOMAIN obj_in \subseteq Columns(table)) THEN Raised(t)
       ELSE IF ~TableOk(table, rows) THEN Raised(t)
       ELSE Ok([t EXCEPT ![table] = rows], row)

\* BaseRepository.update: update(model).where(id == id).values(**obj_in).returning(model);
\* a key that is no column of the model raises when the statement is compiled.
Update(t, table, id, obj_in) ==
    LET rows == UpdateRows(t[table], id, obj_in)
    IN IF ~(DOMAIN obj_in \subseteq Columns(table)) THEN Raised(t)
       ELSE IF ~TableOk(table, rows) THEN Raised(t)
       ELSE Ok([t EXCEPT ![table] = rows], GetBy(rows, "id", id))

\* BaseRepository.get_or_create
get_or_create(t, table, defaults, field, value) ==
    LET instance == GetBy(t[table], field, value)
    IN IF instance # None THEN Ok(t, instance)
       ELSE Create(t, table, DictMerge(defaults, [k \in {field} |-> value]))

\* ensure_not_none
ensure_not_none(value, default) == IF value # None THEN value ELSE default

\* ------------------------------------------------------------ BlueskyUserRepository
\* A comparison that lets an equal sequence number through.
upsert_from_identity_unless_greater(t, identity) ==
    LET user_data == [did |-> identity.did, handle |-> identity.handle,
                      seq |-> identity.seq, active |-> TRUE]
        existing_user == GetBy(t.users, "did", identity.did)
    IN IF existing_user # None
       THEN IF existing_user.seq > identity.seq
            THEN Ok(t, existing_user)
            ELSE Update(t, "users", existing_user.id, user_data)
       ELSE Create(t, "users", user_data)

upsert_from_identity(t, identity) ==
    LET user_data == [did |-> identity.did, handle |-> identity.handle,
                      seq |-> identity.seq, active |-> TRUE]
        existing_user == GetBy(t.users, "did", identity.did)
    IN IF existing_user # None
       THEN IF existing_user.seq >= identity.seq
            THEN Ok(t, existing_user)
            ELSE LET u == Update(t, "users", existing_user.id, user_data)
                 IN IF u.ok THEN Ok(u.t, ensure_not_none(u.row, existing_user)) ELSE u
       ELSE Create(t, "users", user_data)

update_from_account(t, account) ==
    LET existing_user == GetBy(t.users, "did", account.did)
        update_data == [active |-> account.active, seq |-> account.seq]
        user_data == [did |-> account.did, handle |-> UserHandle(account.did),
                      seq |-> account.seq, active |-> account.active]
    IN IF existing_user # None
       THEN IF existing_user.seq >= account.seq
            THEN Ok(t, existing_user)
            ELSE LET u == Update(t, "users", existing_user.id, update_data)
                 IN IF u.ok THEN Ok(u.t, ensure_not_none(u.row, existing_user)) ELSE u
       ELSE Create(t, "users", user_data)

\* ------------------------------------------------------------ BlueskyPostRepository
\* f"at://{user.did}/{commit.collection}/{commit.rkey}"
Uri(did, collection, rkey) == <<"at://", did, collection, rkey>>

\* post_data of a create or update: the fixed columns, the record's columns, the
\* reply pointers when the record has a reply, and the record's remaining fields
\* as additional_data.
PostData(commit, user, post_uri) ==
    LET base == [uri |-> post_uri, rev |-> commit.rev, operation |-> commit.operation,
                 user_id |-> user.id, text |-> commit.record.text,
                 langs |-> commit.record.langs, additional_data |-> commit.record.extra]
    IN IF commit.record.reply # NULL
       THEN DictMerge(base, [parent_uri |-> commit.record.reply])
       ELSE base

\* update_data of a delete: the stored additional_data merged with deleted_at.
DeleteData(existing_post) ==
    LET marker == [deleted_at |-> Now]
        new_data == IF existing_post.additional_data # None
                    THEN DictMerge(existing_post.additional_data, marker)
                    ELSE marker
    IN [operation |-> "delete", additional_data |-> new_data]

\* A slip that derives the stored operation from the row's existence.
UpsertPostByExistence(t, existing_post, post_data) ==
    IF existing_post # None
    THEN Update(t, "posts", existing_post.id, DictMerge(post_data, [operation |-> "update"]))
    ELSE Create(t, "posts", post_data)

\* The end of process_post_commit: update the existing post or create a new one.
UpsertPost(t, existing_post, post_data) ==
    IF existing_post # None
    THEN LET u == Update(t, "posts", existing_post.id, post_data)
         IN IF u.ok THEN Ok(u.t, ensure_not_none(u.row, existing_post)) ELSE u
    ELSE Create(t, "posts", post_data)

\* A lookup that never finds the row.
get_by_uri_blind(t, uri) == None

\* BlueskyPostRepository.get_by_uri
get_by_uri(t, uri) == GetBy(t.posts, "uri", uri)

process_post_commit(t, commit, user) ==
    IF ~IsFeedCollection(commit.collection) \/ commit.record = None
    THEN Ok(t, None)
    ELSE LET post_uri == Uri(user.did, commit.collection, commit.rkey)
             existing_post == get_by_uri(t, post_uri)
         IN IF commit.operation = "delete"
            THEN IF existing_post # None
                 THEN LET u == Update(t, "posts", existing_post.id, DeleteData(existing_post))
                      IN IF u.ok THEN Ok(u.t, existing_post) ELSE u
                 ELSE Ok(t, existing_post)
            ELSE UpsertPost(t, existing_post, PostData(commit, user, post_uri))

\* ------------------------------------------------------------ RawMessageRepository
\* raw_data: the whole event.
store_raw_message(t, message) ==
    Create(t, "raw", [did |-> message.did, kind |-> message.kind,
                      processed |-> FALSE, raw_data |-> message])

mark_as_processed(t, message_id) == Update(t, "raw", message_id, [processed |-> TRUE])

\* ------------------------------------------------------------ the session
\* An AsyncSession: the committed tables, the tables as the open transaction
\* sees them, and the savepoints of begin_nested().
SessionOn(tables) == [db |-> tables, tx |-> tables, sp |-> <<>>]
begin_nested(s) == [s EXCEPT !.sp = Append(@, s.tx)]
\* session.commit(): commits the outermost transaction, releasing the savepoints.
SessionCommit(s) == [db |-> s.tx, tx |-> s.tx, sp |-> <<>>]
\* session.rollback(): rolls back the outermost transaction, discarding the savepoints.
SessionRollback(s) == [db |-> s.db, tx |-> s.db, sp |-> <<>>]

\* ------------------------------------------------------------ PersistenceWorker
\* error_data of the except branch.
error_data == [processed |-> TRUE,
               additional_data |-> [processing_error |-> "str(e)", error_time |-> Now]]

\* The dispatch by message.kind.
Dispatch(t, message) ==
    IF message.kind = "identity" /\ message.identity # None
    THEN upsert_from_identity(t, message.identity)
    ELSE IF message.kind = "account" /\ message.account # None
    THEN update_from_account(t, message.account)
    ELSE IF message.kind = "commit" /\ message.commit # None
    THEN LET g == get_or_create(t, "users",
                      [handle |-> UnknownHandle(message.did), seq |-> 0, active |-> TRUE],
                      "did", message.did)
         IN IF g.ok THEN process_post_commit(g.t, message.commit, g.row) ELSE g
    ELSE Ok(t, None)

\* The except branch of process_message with the exception passed on.
MessageResultReraised(tables, outcome) ==
    [db |-> tables, outcome |-> outcome, raised |-> outcome = "errored"]

\* How process_message ends: every exception is caught and logged.
MessageResult(tables, outcome) == [db |-> tables, outcome |-> outcome, raised |-> FALSE]

\* PersistenceWorker.process_message on a session whose committed tables are db0:
\* the committed tables when it returns, and whether the dispatch was applied.
process_message(db0, message) ==
    LET s0 == SessionOn(db0)
        st == store_raw_message(s0.tx, message)
    IN IF ~st.ok
       THEN MessageResult(SessionRollback(s0).db, "errored")
       ELSE LET s1 == begin_nested([s0 EXCEPT !.tx = st.t])
                d == Dispatch(s1.tx, message)
                mk == IF d.ok THEN mark_as_processed(d.t, st.row.id) ELSE d
            IN IF mk.ok
               THEN MessageResult(SessionCommit([s1 EXCEPT !.tx = mk.t]).db, "applied")
               ELSE LET s2 == SessionRollback(s1)
                        up == Update(s2.tx, "raw", st.row.id, error_data)
                    IN IF up.ok
                       THEN MessageResult(SessionCommit([s2 EXCEPT !.tx = up.t]).db, "errored")
                       ELSE MessageResult(s2.db, "errored")

\* A threshold that is passed only above max_consecutive_errors.
BreakerOnErrorAbove(errors, backoff) ==
    LET e == errors + 1
    IN [errors |-> e,
        backoff |-> IF e > max_consecutive_errors
                    THEN Min2(backoff * 2, max_backoff_time)
                    ELSE backoff]

\* A backoff that doubles on every failed cycle.
BreakerOnErrorDoubling(errors, backoff) ==
    [errors |-> errors + 1, backoff |-> Min2(backoff * 2, max_backoff_time)]

\* A backoff without its ceiling.
BreakerOnErrorUncapped(errors, backoff) ==
    LET e == errors + 1
    IN [errors |-> e,
        backoff |-> IF e >= max_consecutive_errors THEN backoff * 2 ELSE backoff]

\* The circuit breaker of run(): the except branch of a cycle.
BreakerOnError(errors, backoff) ==
    LET e == errors + 1
    IN [errors |-> e,
        backoff |-> IF e >= max_consecutive_errors
                    THEN Min2(backoff * 2, max_backoff_time)
                    ELSE backoff]

\* An empty poll that leaves the counter as it is.
BreakerOnEmptyKeeping(errors, backoff) ==
    [errors |-> errors, backoff |-> Max2(1, backoff \div 2)]

\* The empty-poll branch.
BreakerOnEmpty(errors, backoff) ==
    IF errors > 0
    THEN [errors |-> Max2(0, errors - 1), backoff |-> Max2(1, backoff \div 2)]
    ELSE [errors |-> errors, backoff |-> backoff]

\* ------------------------------------------------------------ state
VARIABLES
    topic,               \* the bus topic: the events published after the group first joined
    position,            \* the consumer's fetch position (events fetched so far)
    committed,           \* the group's committed offset, or NoOffset
    db,                  \* the committed tables
    pc,                  \* where run() is: "idle", "loop", "batch"
    running,             \* self.running
    gen,                 \* self.db_session_generator: "fresh", "suspended" (at its yield), "exhausted"
    session,             \* the session it yielded: "none", "open", "closed"
    records,             \* the poll result being processed, partitions in iteration order
    idx,                 \* the next message of records
    consecutive_errors,
    backoff_time,
    crashes,             \* restarts of the process so far
    cycle,               \* history: how the last cycle ended: "none", "empty", "committed", "failed"
    outcomes,            \* history: what became of records[1..idx-1]
    delivered,           \* history: the number of messages the loop has taken from its poll results
    hi,                  \* history: the highest offset handled so far
    onceDb,              \* history: the tables had every handled event been handled once
    redelivered          \* history: an event was handled a second time

vars == <<topic, position, committed, db, pc, running, gen, session, records, idx,
          consecutive_errors, backoff_time, crashes, cycle, outcomes, delivered, hi, onceDb, redelivered>>

historyVars == <<outcomes, delivered, hi, onceDb, redelivered>>

\* The state of a JetstreamClient and of its subscribe() generator.
VARIABLES
    compress,            \* the compress argument of the constructor
    collections,         \* the collections argument
    wanted_dids,         \* the wanted_dids argument
    max_message_size_bytes,
    websocket,           \* self.websocket: "none" or "open"
    sub,                 \* where the generator the caller iterates is: "new", "loop", "recv",
                         \* "yielded", "except", "raised" for subscribe(); "direct", "done"
                         \* for stream_messages() iterated by the caller itself
    connection_attempts,
    last_cursor,         \* self.last_cursor: <<>> for None, <<time_us>> otherwise
    url,                 \* the URL of the last connection request, <<>> before the first
    open_sockets,        \* connections the client opened that neither side has closed
    received,            \* history: frames taken from the websocket
    emitted,             \* history: messages yielded to the caller
    yielded,             \* history: time_us of the messages yielded, in order
    frame,               \* history: the frame taken last
    closed               \* history: how the last connection ended: "none", "ok", "error", "local"

configVars == <<compress, collections, wanted_dids, max_message_size_bytes>>

\* The bus producer of a KafkaClient and the IngestClient that feeds it.
VARIABLES
    producer,            \* KafkaClient.producer: "none", "created", "started", "stopped"
    starts,              \* history: calls of producer.start()
    sends,               \* history: calls of send_and_wait in the latest produce_msg
    produced,            \* history: the latest produce_msg: "none", "calling", "start_raised",
                         \*   "send_raised", "log_raised", "returned"
    pending,             \* the message produce_msg is sending, if any
    published,           \* the values on the topic, in order
    ingest_pc,           \* stream_data: "new", "ensure", "iterating", "send", "failed", "done"
    ingest_running,      \* IngestClient.running
    stop_at              \* history: messages yielded when stop() was called from outside, or -1

ingestVars == <<producer, starts, sends, produced, pending, published, ingest_pc, ingest_running,
                stop_at>>

VARIABLES
    consumer,            \* KafkaClient.consumer: "none", "created", "started", "stopped"
    consumer_closing,    \* KafkaClient._consumer_closing
    subscribed,          \* whether the consumer has a topic subscription
    fetch_position,      \* messages of the topic the consumer has fetched or skipped
    group_offset,        \* the group's committed offset on the topic, or NoOffset
    consumed,            \* history: the values consume_msg yielded, in order
    consume_pc           \* consume_msg: "none", "waiting", "yielded", "raised", "ended",
                         \*   "closed" (left at its yield)

consumerVars == <<consumer, consumer_closing, subscribed, fetch_position, group_offset, consumed,
                  consume_pc>>

streamVars == <<compress, collections, wanted_dids, max_message_size_bytes, websocket, sub,
                connection_attempts, last_cursor, url, open_sockets, received, emitted, yielded,
                frame, closed, producer, starts, sends, produced, pending, published, ingest_pc,
                ingest_running, stop_at, consumer, consumer_closing, subscribed, fetch_position,
                group_offset, consumed, consume_pc>>

\* KafkaClient.__init__ and IngestClient.__init__.
IngestIdle ==
    /\ producer = "none"
    /\ starts = 0
    /\ sends = 0
    /\ produced = "none"
    /\ pending = <<>>
    /\ published = <<>>
    /\ ingest_pc = "new"
    /\ ingest_running = FALSE
    /\ stop_at = -1
    /\ consumer = "none"
    /\ consumer_closing = FALSE
    /\ subscribed = FALSE
    /\ fetch_position = 0
    /\ group_offset = NoOffset
    /\ consumed = <<>>
    /\ consume_pc = "none"

\* JetstreamClient.__init__: no connection, no cursor.
ClientInit ==
    /\ websocket = "none"
    /\ sub = "new"
    /\ connection_attempts = 0
    /\ last_cursor = <<>>
    /\ url = <<>>
    /\ open_sockets = 0
    /\ received = 0
    /\ emitted = 0
    /\ yielded = <<>>
    /\ frame = None
    /\ closed = "none"

\* JetstreamClient(): collections=[], max_message_size_bytes=0, wanted_dids=[],
\* compress=False.
DefaultConfig ==
    /\ collections = <<>>
    /\ wanted_dids = <<>>
    /\ max_message_size_bytes = 0

\* PersistenceWorker.__init__, before run(); nothing consumed, nothing stored.
Init ==
    /\ topic \in SeqsUpTo(MaxLog)
    /\ position = 0
    /\ committed = NoOffset
    /\ db = EmptyTables
    /\ pc = "idle"
    /\ running = FALSE
    /\ gen = "fresh"
    /\ session = "none"
    /\ records = <<>>
    /\ idx = 1
    /\ consecutive_errors = 0
    /\ backoff_time = 1
    /\ crashes = 0
    /\ cycle = "none"
    /\ outcomes = <<>>
    /\ delivered = 0
    /\ hi = 0
    /\ onceDb = EmptyTables
    /\ redelivered = FALSE
    /\ compress = FALSE
    /\ DefaultConfig
    /\ ClientInit
    /\ IngestIdle

\* The offset of the event handled last by this run of the worker.
Cur == position - Len(records) + (idx - 1)

\* run() up to the loop: the consumer is created (auto-commit disabled), started
\* and subscribed; the breaker starts at 0 errors and 1 second.
Run ==
    /\ cycle' = "none"
    /\ pc = "idle"
    /\ pc' = "loop"
    /\ running' = TRUE
    /\ consecutive_errors' = 0
    /\ backoff_time' = 1
    /\ UNCHANGED <<topic, position, committed, db, gen, session, records, idx, crashes>>
    /\ UNCHANGED historyVars
    /\ UNCHANGED streamVars

\* enable_auto_commit=True: the fetched offsets are committed with the poll.
PollRecordsAutoCommit ==
    /\ cycle' = "none"
    /\ pc = "loop" /\ running
    /\ gen = "fresh"
    /\ \E n \in 1..Min2(MaxPoll, Len(topic) - position) :
        /\ records' = SubSeq(topic, position + 1, position + n)
        /\ position' = position + n
    /\ committed' = position'
    /\ gen' = "suspended"
    /\ session' = "open"
    /\ idx' = 1
    /\ outcomes' = <<>>
    /\ pc' = "batch"
    /\ UNCHANGED <<topic, db, running, consecutive_errors, backoff_time, crashes>>
    /\ UNCHANGED <<delivered, hi, onceDb, redelivered>>
    /\ UNCHANGED streamVars

\* A cycle whose get_db_session() returns the session and whose getmany() returns
\* n > 0 records.
PollRecords ==
    /\ cycle' = "none"
    /\ pc = "loop" /\ running
    /\ gen = "fresh"
    /\ \E n \in 1..Min2(MaxPoll, Len(topic) - position) :
        /\ records' = SubSeq(topic, position + 1, position + n)
        /\ position' = position + n
    /\ gen' = "suspended"
    /\ session' = "open"
    /\ idx' = 1
    /\ outcomes' = <<>>
    /\ pc' = "batch"
    /\ UNCHANGED <<topic, committed, db, running, consecutive_errors, backoff_time, crashes>>
    /\ UNCHANGED <<delivered, hi, onceDb, redelivered>>
    /\ UNCHANGED streamVars

\* A cycle whose getmany() times out with no records: continue.
PollEmpty ==
    /\ cycle' = "empty"
    /\ pc = "loop" /\ running
    /\ gen = "fresh"
    /\ gen' = "suspended"
    /\ session' = "open"
    /\ consecutive_errors' = BreakerOnEmpty(consecutive_errors, backoff_time).errors
    /\ backoff_time' = BreakerOnEmpty(consecutive_errors, backoff_time).backoff
    /\ UNCHANGED <<topic, position, committed, db, pc, running, records, idx, crashes>>
    /\ UNCHANGED historyVars
    /\ UNCHANGED streamVars

\* A loop that gives up when the breaker opens.
SessionErrorGivingUp ==
    /\ cycle' = "failed"
    /\ pc = "loop" /\ running
    /\ gen # "fresh"
    /\ consecutive_errors < MaxErrors
    /\ gen' = "exhausted"
    /\ session' = "closed"
    /\ consecutive_errors' = BreakerOnError(consecutive_errors, backoff_time).errors
    /\ backoff_time' = BreakerOnError(consecutive_errors, backoff_time).backoff
    /\ pc' = IF consecutive_errors' >= max_consecutive_errors THEN "stopped" ELSE "loop"
    /\ UNCHANGED <<topic, position, committed, db, running, records, idx, crashes>>
    /\ UNCHANGED historyVars
    /\ UNCHANGED streamVars

\* A cycle whose get_db_session() raises: the generator was left at its yield by
\* the break of an earlier call, so it now runs its finally (session.close()) and
\* ends, or has ended already; no session is assigned and RuntimeError is raised.
SessionError ==
    /\ cycle' = "failed"
    /\ pc = "loop" /\ running
    /\ gen # "fresh"
    /\ consecutive_errors < MaxErrors
    /\ gen' = "exhausted"
    /\ session' = "closed"
    /\ consecutive_errors' = BreakerOnError(consecutive_errors, backoff_time).errors
    /\ backoff_time' = BreakerOnError(consecutive_errors, backoff_time).backoff
    /\ UNCHANGED <<topic, position, committed, db, pc, running, records, idx, crashes>>
    /\ UNCHANGED historyVars
    /\ UNCHANGED streamVars

\* A cycle whose getmany() raises (the bus is unavailable).
PollError ==
    /\ cycle' = "failed"
    /\ pc = "loop" /\ running
    /\ gen = "fresh"
    /\ consecutive_errors < MaxErrors
    /\ gen' = "suspended"
    /\ session' = "open"
    /\ consecutive_errors' = BreakerOnError(consecutive_errors, backoff_time).errors
    /\ backoff_time' = BreakerOnError(consecutive_errors, backoff_time).backoff
    /\ UNCHANGED <<topic, position, committed, db, pc, running, records, idx, crashes>>
    /\ UNCHANGED historyVars
    /\ UNCHANGED streamVars

\* What handling the event at offset Cur + 1 does to the history.
Handled(w, outcome) ==
    LET offset == Cur + 1
        message == deserialize_message(w)
    IN /\ outcomes' = Append(outcomes, outcome)
       /\ delivered' = delivered + 1
       /\ hi' = Max2(hi, offset)
       /\ onceDb' = IF offset > hi /\ message # None
                    THEN process_message(onceDb, message).db
                    ELSE onceDb
       /\ redelivered' = (redelivered \/ offset <= hi)

\* A message of the batch that does not deserialize: logged and passed over.
Drop ==
    /\ UNCHANGED cycle
    /\ pc = "batch" /\ idx <= Len(records)
    /\ deserialize_message(records[idx]) = None
    /\ idx' = idx + 1
    /\ Handled(records[idx], "dropped")
    /\ UNCHANGED <<topic, position, committed, db, pc, running, gen, session, records,
                   consecutive_errors, backoff_time, crashes>>
    /\ UNCHANGED streamVars

\* A message of the batch that deserializes: process_message, then the next
\* message; an exception leaving process_message would end the cycle in the
\* except branch of the loop.
Process ==
    /\ pc = "batch" /\ idx <= Len(records)
    /\ deserialize_message(records[idx]) # None
    /\ LET r == process_message(db, deserialize_message(records[idx]))
       IN /\ db' = r.db
          /\ Handled(records[idx], r.outcome)
          /\ IF r.raised
             THEN /\ pc' = "loop"
                  /\ cycle' = "failed"
                  /\ records' = <<>>
                  /\ idx' = 1
                  /\ consecutive_errors' = BreakerOnError(consecutive_errors, backoff_time).errors
                  /\ backoff_time' = BreakerOnError(consecutive_errors, backoff_time).backoff
             ELSE /\ idx' = idx + 1
                  /\ UNCHANGED <<pc, cycle, records, consecutive_errors, backoff_time>>
    /\ UNCHANGED <<topic, position, committed, running, gen, session, crashes>>
    /\ UNCHANGED streamVars

\* process_message with the database unreachable: the statement raises and, in
\* the except branch, session.rollback() raises too; that exception leaves
\* process_message and ends the cycle in the except branch of the loop.  The
\* rest of the poll result is not looked at.
ProcessAbort ==
    /\ cycle' = "failed"
    /\ pc = "batch" /\ idx <= Len(records)
    /\ deserialize_message(records[idx]) # None
    /\ consecutive_errors < MaxErrors
    /\ consecutive_errors' = BreakerOnError(consecutive_errors, backoff_time).errors
    /\ backoff_time' = BreakerOnError(consecutive_errors, backoff_time).backoff
    /\ pc' = "loop"
    /\ records' = <<>>
    /\ idx' = 1
    /\ outcomes' = <<>>
    /\ delivered' = delivered + 1
    /\ UNCHANGED <<topic, position, committed, db, running, gen, session, crashes>>
    /\ UNCHANGED <<hi, onceDb, redelivered>>
    /\ UNCHANGED streamVars

\* consumer.commit() after the last message of the batch, and the breaker reset.
CommitOffsets ==
    /\ cycle' = "committed"
    /\ pc = "batch" /\ idx > Len(records)
    /\ committed' = position
    /\ consecutive_errors' = 0
    /\ backoff_time' = 1
    /\ pc' = "loop"
    /\ records' = <<>>
    /\ idx' = 1
    /\ outcomes' = <<>>
    /\ UNCHANGED <<topic, position, db, running, gen, session, crashes>>
    /\ UNCHANGED <<delivered, hi, onceDb, redelivered>>
    /\ UNCHANGED streamVars

\* consumer.commit() raises: the except branch of the loop.
CommitError ==
    /\ cycle' = "failed"
    /\ pc = "batch" /\ idx > Len(records)
    /\ consecutive_errors < MaxErrors
    /\ consecutive_errors' = BreakerOnError(consecutive_errors, backoff_time).errors
    /\ backoff_time' = BreakerOnError(consecutive_errors, backoff_time).backoff
    /\ pc' = "loop"
    /\ records' = <<>>
    /\ idx' = 1
    /\ outcomes' = <<>>
    /\ UNCHANGED <<topic, position, committed, db, running, gen, session, crashes>>
    /\ UNCHANGED <<delivered, hi, onceDb, redelivered>>
    /\ UNCHANGED streamVars

\* stop(), called from another task while run() is in its loop: the flag is
\* cleared and the consumer closed.
Stop ==
    /\ pc \in {"loop", "batch"}
    /\ running
    /\ running' = FALSE
    /\ UNCHANGED <<topic, position, committed, db, pc, gen, session, records, idx,
                   consecutive_errors, backoff_time, crashes, cycle>>
    /\ UNCHANGED historyVars
    /\ UNCHANGED streamVars

\* while self.running is false: run() leaves the loop, closes the consumer in
\* its finally and returns.
Exit ==
    /\ pc = "loop"
    /\ ~running
    /\ pc' = "stopped"
    /\ UNCHANGED <<topic, position, committed, db, running, gen, session, records, idx,
                   consecutive_errors, backoff_time, crashes, cycle>>
    /\ UNCHANGED historyVars
    /\ UNCHANGED streamVars

\* The process dies and start_persistence_worker() runs again: a new worker, a
\* new generator, a new consumer of the same group.  It resumes at the
\* committed offset; a group without one starts at the end of the topic
\* (auto_offset_reset is left at "latest").  Uncommitted transactions are lost.
Crash ==
    /\ cycle' = "none"
    /\ pc # "idle"
    /\ crashes < MaxCrash
    /\ crashes' = crashes + 1
    /\ position' = IF committed = NoOffset THEN Len(topic) ELSE committed
    /\ pc' = "idle"
    /\ running' = FALSE
    /\ gen' = "fresh"
    /\ session' = "none"
    /\ records' = <<>>
    /\ idx' = 1
    /\ consecutive_errors' = 0
    /\ backoff_time' = 1
    /\ outcomes' = <<>>
    /\ UNCHANGED <<topic, committed, db, delivered, hi, onceDb, redelivered>>
    /\ UNCHANGED streamVars

Next ==
    \/ Run
    \/ PollRecords
    \/ PollEmpty
    \/ SessionError
    \/ PollError
    \/ Drop
    \/ Process
    \/ ProcessAbort
    \/ CommitOffsets
    \/ CommitError
    \/ Crash

Spec == Init /\ [][Next]_vars

\* One run of the worker that stop() may end: the process does not die.
StopNext ==
    \/ Run
    \/ PollRecords
    \/ PollEmpty
    \/ SessionError
    \/ PollError
    \/ Drop
    \/ Process
    \/ ProcessAbort
    \/ CommitOffsets
    \/ CommitError
    \/ Stop
    \/ Exit

SpecStop == Init /\ [][StopNext]_vars

\* ------------------------------------------------------------ steps of the loop
\* The step in which the loop finishes with records[idx] in the given way:
\* "dropped" by deserialize_message, or "applied"/"errored" by process_message.
Handles(outcome) ==
    /\ Len(outcomes') = Len(outcomes) + 1
    /\ outcomes'[Len(outcomes')] = outcome

\* The step is a call of process_message.
ProcessesMessage == Handles("applied") \/ Handles("errored")

\* The message the loop is at.
CurrentMessage == deserialize_message(records[idx])

\* Every message of the poll result has been dropped, applied or errored.
BatchHandled ==
    /\ pc = "batch"
    /\ idx > Len(records)
    /\ Len(outcomes) = Len(records)
    /\ \A i \in 1..Len(outcomes) : outcomes[i] \in {"dropped", "applied", "errored"}

\* ------------------------------------------------------------ C1
\* C1: every call of process_message leaves exactly one more committed
\* raw_message row, the row of its event, whether the dispatch succeeded or
\* raised.
C1_ArchivedExactlyOnce ==
    [][ProcessesMessage =>
          /\ Len(db'.raw) = Len(db.raw) + 1
          /\ SubSeq(db'.raw, 1, Len(db.raw)) = db.raw
          /\ db'.raw[Len(db'.raw)].raw_data = CurrentMessage]_vars

\* ------------------------------------------------------------ C2
\* C2: when the dispatch raises, the changes of the dispatch are rolled back and
\* the event's raw_message row is committed with processed = true and an error
\* annotation.
C2_ErroredRowAnnotated ==
    [][Handles("errored") =>
          /\ db'.users = db.users
          /\ db'.posts = db.posts
          /\ Len(db'.raw) = Len(db.raw) + 1
          /\ db'.raw[Len(db'.raw)].raw_data = CurrentMessage
          /\ db'.raw[Len(db'.raw)].processed = TRUE
          /\ "additional_data" \in DOMAIN db'.raw[Len(db'.raw)]]_vars

\* ------------------------------------------------------------ C3
\* C3: after N messages, valid or malformed, have been taken from the poll
\* results, exactly N raw_message rows exist and each has processed = true.
C3_ArchivalComplete ==
    /\ Len(db.raw) = delivered
    /\ \A i \in 1..Len(db.raw) : db.raw[i].processed = TRUE

\* ------------------------------------------------------------ C4
\* C4: the committed offset changes only when every message of the poll result
\* has been dropped, applied or errored, and then to the position after that
\* poll result; a cycle that leaves the batch in any other way (an exception,
\* the end of the process) leaves the committed offset as it was.
C4_CommitAfterBatch ==
    [][/\ committed' # committed => (BatchHandled /\ committed' = position)
       /\ (pc = "batch" /\ pc' # "batch" /\ ~(BatchHandled /\ consecutive_errors' = 0 /\ pc' = "loop"))
             => committed' = committed
       /\ (pc = "batch" /\ pc' = "loop" /\ consecutive_errors' > consecutive_errors)
             => committed' = committed]_vars

\* A second batch was handled and its offset commit raised: the committed
\* offset is still the one of the first batch.
C4_Witness ==
    /\ pc = "loop"
    /\ committed = 1
    /\ position = 2
    /\ hi = 2
    /\ consecutive_errors = 1

IncomingSeq(message) ==
    IF message.kind = "identity" THEN message.identity.seq ELSE message.account.seq

\* upsert_from_identity or update_from_account on the tables t.
ApplyActorEvent(t, message) ==
    IF message.kind = "identity"
    THEN upsert_from_identity(t, message.identity)
    ELSE update_from_account(t, message.account)

\* The identity and account messages among the events.
ActorMessages ==
    {deserialize_message(w) : w \in {e \in Events : e.json /\ e.obj.kind \in {"identity", "account"}}}

\* C7: on any tables the worker reaches, upsert_from_identity and
\* update_from_account with a sequence number that is not strictly greater than
\* the stored one change nothing and return the existing row, and with a
\* strictly greater one store it; and in every step each stored user keeps its
\* did and a sequence number at least as large as before.
C7_SeqMonotonic ==
    [][/\ db' # db =>
            \A message \in ActorMessages :
                LET t == db'
                    existing_user == GetBy(t.users, "did", message.did)
                    r == ApplyActorEvent(t, message)
                IN existing_user # None =>
                     IF existing_user.seq >= IncomingSeq(message)
                     THEN r = Ok(t, existing_user)
                     ELSE r.ok /\ r.row.seq = IncomingSeq(message) /\ r.t.users # t.users
       /\ \A i \in 1..Len(db.users) :
            /\ i <= Len(db'.users)
            /\ db'.users[i].did = db.users[i].did
            /\ db'.users[i].seq >= db.users[i].seq
       /\ (ProcessesMessage /\ CurrentMessage.kind \in {"identity", "account"}
             /\ GetBy(db.users, "did", CurrentMessage.did) # None
             /\ GetBy(db.users, "did", CurrentMessage.did).seq >= IncomingSeq(CurrentMessage))
            => db'.users = db.users]_vars

\* Identity with sequence number 2 and then 1: the stored row is the one of 2.
C7_Witness ==
    /\ pc = "batch"
    /\ records = <<IdentityNew, IdentityOld>>
    /\ outcomes = <<"applied", "applied">>
    /\ Len(db.users) = 1
    /\ db.users[1].seq = 2
    /\ db.users[1].handle = "alice.test"

\* ------------------------------------------------------------ C8
\* The create and update commits among the events.
UpsertCommits ==
    {deserialize_message(w) : w \in {e \in Events :
        e.json /\ e.obj.kind = "commit" /\ e.obj.commit.operation \in {"create", "update"}}}

\* process_message with each create or update commit twice on the tables t
\* leaves the posts table as process_message with it once.
TwiceAsOnce(t) ==
    \A message \in UpsertCommits :
        LET once == process_message(t, message).db
            twice == process_message(once, message).db
        IN twice.posts = once.posts

UniqueUri(posts) == \A i, j \in 1..Len(posts) : posts[i].uri = posts[j].uri => i = j

C10_SoftDelete ==
    [][(ProcessesMessage /\ CurrentMessage.kind = "commit"
          /\ CurrentMessage.commit.operation = "delete")
         => LET commit == CurrentMessage.commit
                post_uri == Uri(CurrentMessage.did, commit.collection, commit.rkey)
                existing_post == GetBy(db.posts, "uri", post_uri)
                post == GetBy(db'.posts, "uri", post_uri)
            IN (existing_post # None /\ existing_post.operation = "create")
                 => /\ post # None
                    /\ post.operation = "delete"
                    /\ "deleted_at" \in DOMAIN post.additional_data
                    /\ \A k \in DOMAIN existing_post.additional_data :
                         /\ k \in DOMAIN post.additional_data
                         /\ post.additional_data[k] = existing_post.additional_data[k]]_vars

\* ------------------------------------------------------------ C11
\* The events that deserialize.
ValidMessages == {deserialize_message(w) : w \in {e \in Events : deserialize_message(e) # None}}

\* process_message with each message of the sequence messages, in order.
RECURSIVE ProcessAll(_, _)
ProcessAll(t, messages) ==
    IF messages = <<>> THEN t
    ELSE ProcessAll(process_message(t, Head(messages)).db, Tail(messages))

\* C11: on any tables the worker reaches, two events leave the same users and
\* posts in either delivery order, and with the first of them delivered once
\* more at the end.
C11_OrderIndependent ==
    \A a, b \in ValidMessages :
        LET ab == ProcessAll(db, <<a, b>>)
            ba == ProcessAll(db, <<b, a>>)
            aba == ProcessAll(db, <<a, b, a>>)
        IN /\ ab.users = ba.users /\ ab.posts = ba.posts
           /\ ab.users = aba.users /\ ab.posts = aba.posts

\* ---------------------------------------------------------------------------
\* The circuit breaker

\* The breaker after n failed cycles in a row.
RECURSIVE FailedCycles(_, _)
FailedCycles(n, breaker) ==
    IF n = 0 THEN breaker
    ELSE FailedCycles(n - 1, BreakerOnError(breaker.errors, breaker.backoff))

Fresh == [errors |-> 0, backoff |-> 1]

RECURSIVE Pow2(_)
Pow2(n) == IF n = 0 THEN 1 ELSE 2 * Pow2(n - 1)

\* Failed cycles in a row looked at by the claims about the breaker; the
\* ceiling is reached at the tenth.
MaxFailed == 12

\* C12, as stated: from counter 0 and backoff 1, five failed cycles in a row
\* leave backoff_time at min(1 * 2^4, 60) = 16.
C12_BackoffSixteen ==
    consecutive_errors = 5 => backoff_time = Min2(1 * Pow2(4), max_backoff_time)

\* C12, amended: from counter 0 and backoff 1, n failed cycles in a row leave
\* the counter at n and backoff_time at 1 while n < 5 and at
\* min(2^(n - 4), 60) from n = 5 on; after five, backoff_time is 2.
C12_BackoffAfterFive ==
    /\ pc = "idle" =>
        \A n \in 0..MaxFailed :
            FailedCycles(n, Fresh) =
                [errors |-> n,
                 backoff |-> IF n < max_consecutive_errors THEN 1
                             ELSE Min2(Pow2(n - (max_consecutive_errors - 1)), max_backoff_time)]
    /\ consecutive_errors = 5 => backoff_time = 2

C12_Witness ==
    /\ pc = "loop"
    /\ cycle = "failed"
    /\ consecutive_errors = 5
    /\ backoff_time = 2

InRange(breaker) ==
    /\ breaker.errors >= 0
    /\ 1 <= breaker.backoff
    /\ breaker.backoff <= max_backoff_time

\* C13: in every state of the worker 1 <= backoff_time <= 60 and
\* consecutive_errors >= 0; each branch of the loop that writes the two
\* (failed cycle, empty poll, committed batch) keeps them so from any values
\* in that range.
C13_BreakerInRange ==
    [][/\ InRange([errors |-> consecutive_errors, backoff |-> backoff_time])
       /\ InRange([errors |-> consecutive_errors', backoff |-> backoff_time'])
       /\ (pc = "idle" /\ crashes = 0) =>
            /\ \A e \in 0..MaxFailed, b \in 1..max_backoff_time :
                /\ InRange(BreakerOnError(e, b))
                /\ InRange(BreakerOnEmpty(e, b))
            /\ InRange(FailedCycles(MaxFailed, Fresh))]_vars

C13_Witness ==
    /\ consecutive_errors > max_consecutive_errors
    /\ backoff_time > 2
    /\ committed # NoOffset

\* A step that ends a cycle in the except branch of the loop.
FailedCycle ==
    /\ pc \in {"loop", "batch"}
    /\ pc' = "loop"
    /\ cycle' = "failed"
    /\ running' = running
    /\ vars' # vars

\* C14: a failed cycle adds one to consecutive_errors and changes backoff_time
\* only when the incremented counter has reached 5, then to
\* min(2 * backoff_time, 60); below 5 it leaves backoff_time as it was.
C14_DoubleFromFive ==
    [][FailedCycle =>
         /\ consecutive_errors' = consecutive_errors + 1
         /\ backoff_time' = IF consecutive_errors' >= 5
                            THEN Min2(2 * backoff_time, 60)
                            ELSE backoff_time]_vars

C14_Witness ==
    /\ cycle = "failed"
    /\ consecutive_errors = 6
    /\ backoff_time = 4

\* C15: once in the loop, run() returns only from the head of the loop with
\* the running flag cleared by stop(), and the step that leaves changes
\* neither counter; a cycle that ends in the except branch goes back to the
\* head of the loop whatever the counter has reached, and no step of the loop
\* clears the flag.
C15_ExitOnlyOnStop ==
    [][/\ (pc' = "stopped" /\ pc # "stopped") =>
            /\ pc = "loop"
            /\ ~running
            /\ UNCHANGED <<consecutive_errors, backoff_time, cycle>>
       /\ (cycle' = "failed" /\ consecutive_errors' # consecutive_errors) =>
            pc' = "loop"
       /\ (running /\ ~running') =>
            UNCHANGED <<pc, consecutive_errors, backoff_time, cycle, position, committed, db>>]_vars

C15_Witness ==
    /\ pc = "stopped"
    /\ cycle = "failed"
    /\ consecutive_errors > max_consecutive_errors

Range(f) == {f[i] : i \in DOMAIN f}

\* C16: the step that ends a cycle whose batch held a message that failed its
\* apply adds one to consecutive_errors.
C16_ApplyErrorsCounted ==
    [][(pc = "batch" /\ pc' = "loop" /\ "errored" \in Range(outcomes)) =>
         consecutive_errors' = consecutive_errors + 1]_vars

\* A step that ends a cycle without an exception: the continue of an empty
\* poll, or consumer.commit() returning after the batch.
CompletedCycle ==
    \/ /\ pc = "loop"
       /\ pc' = "loop"
       /\ cycle' = "empty"
       /\ gen # gen'
    \/ /\ pc = "batch"
       /\ pc' = "loop"
       /\ cycle' = "committed"

\* C17: a cycle that completes without exception leaves consecutive_errors and
\* backoff_time no greater than they were, and consecutive_errors smaller if
\* it was positive; the empty-poll branch does so from every counter and every
\* backoff in range.
C17_SuccessNeverRaises ==
    [][CompletedCycle =>
         /\ consecutive_errors' <= consecutive_errors
         /\ backoff_time' <= backoff_time
         /\ consecutive_errors > 0 => consecutive_errors' < consecutive_errors
         /\ cycle' = "empty" => \A e \in 0..MaxFailed, b \in 1..max_backoff_time :
              LET after == BreakerOnEmpty(e, b)
              IN /\ after.errors <= e
                 /\ after.backoff <= b
                 /\ e > 0 => after.errors < e]_vars

C17_Witness ==
    /\ pc = "loop"
    /\ cycle \in {"empty", "committed"}
    /\ consecutive_errors = 0
    /\ backoff_time = 1
    /\ committed # NoOffset

\* C18: every cycle the loop starts gets an open session from get_db_session.
C18_SessionEveryCycle ==
    [][(pc = "loop" /\ running /\ running' /\ pc' \in {"loop", "batch"} /\ vars' # vars) =>
         session' = "open"]_vars

\* ---------------------------------------------------------------------------
\* The Jetstream client: JetstreamClient.subscribe() and stream_messages()

\* Frames one run of the client takes from its websockets.
MaxFrames == 3

max_attempts == 5

\* A websocket frame: a str or a bytes object.  zstd: the bytes are a frame the
\* decompressor accepts; utf8: the (decompressed) bytes decode as UTF-8; json:
\* the text is a JSON object, another JSON value, or no JSON; valid: the
\* object passes Message.model_validate; time_us: its time_us field.
Frame(binary, zstd, utf8, json, valid, time_us) ==
    [binary |-> binary, zstd |-> zstd, utf8 |-> utf8, json |-> json, valid |-> valid,
     time_us |-> time_us]

TextMessage(t) == Frame(FALSE, FALSE, TRUE, "object", TRUE, t)
TextNotJson == Frame(FALSE, FALSE, TRUE, "none", FALSE, 0)
TextArray == Frame(FALSE, FALSE, TRUE, "other", FALSE, 0)
TextBadSchema == Frame(FALSE, FALSE, TRUE, "object", FALSE, 10)
BytesMessage(t) == Frame(TRUE, TRUE, TRUE, "object", TRUE, t)
BytesNotJson == Frame(TRUE, TRUE, TRUE, "none", FALSE, 0)
BytesNotZstd == Frame(TRUE, FALSE, TRUE, "object", TRUE, 10)
BytesNotUtf8 == Frame(TRUE, TRUE, FALSE, "none", FALSE, 0)

Frames == {TextMessage(10), TextMessage(20), TextNotJson, TextArray, TextBadSchema,
           BytesMessage(20), BytesNotJson, BytesNotZstd, BytesNotUtf8}

\* The text of a frame, as far as the parse looks at it.
Text(json, valid, time_us) == [json |-> json, valid |-> valid, time_us |-> time_us]

\* stream_messages, lines 126-135: decompress and decode a bytes frame when
\* compression is on, take a str as it is, str() anything else (the repr of a
\* bytes object, which is no JSON).  decompress() and decode() may raise.
Decode(c, f) ==
    IF c /\ f.binary
    THEN IF f.zstd /\ f.utf8
         THEN [ok |-> TRUE, text |-> Text(f.json, f.valid, f.time_us)]
         ELSE [ok |-> FALSE, text |-> None]
    ELSE IF ~f.binary
         THEN [ok |-> TRUE, text |-> Text(f.json, f.valid, f.time_us)]
         ELSE [ok |-> TRUE, text |-> Text("none", FALSE, 0)]

\* A parse that lets the validation error out.
ParseRaising(text) ==
    IF text.json = "none" THEN [kind |-> "skipped", time_us |-> 0]
    ELSE IF text.json = "object" /\ text.valid
         THEN [kind |-> "message", time_us |-> text.time_us]
         ELSE [kind |-> "raised", time_us |-> 0]

\* stream_messages, lines 138-165: json.loads and Message.model_validate; a
\* JSONDecodeError and a ValidationError are logged and the loop continues.
Parse(text) ==
    IF text.json = "none" THEN [kind |-> "skipped", time_us |-> 0]
    ELSE IF text.json = "object" /\ text.valid
         THEN [kind |-> "message", time_us |-> text.time_us]
         ELSE [kind |-> "skipped", time_us |-> 0]

\* One pass of the loop body of stream_messages over frame f.
FrameResult(c, f) ==
    LET d == Decode(c, f)
    IN IF ~d.ok THEN [kind |-> "raised", time_us |-> 0] ELSE Parse(d.text)

\* ------------------------------------------------------------ subscription URL

\* Collections and DIDs a client is configured with, at most MaxParams of each.
MaxParams == 2

Host == "wss://jetstream1.us-east.bsky.network/subscribe"
CollectionValues == {"app.bsky.feed.post", "app.bsky.graph.*"}
DidValues == {"did:plc:a", "did:web:b.test"}
SizeValues == {0, 1024}

\* urllib.parse.quote_plus on the strings above: letters, digits and "_.-~" stay,
\* every other character becomes %XX.
quote_plus(s) ==
    CASE s = "app.bsky.feed.post" -> "app.bsky.feed.post"
      [] s = "app.bsky.graph.*" -> "app.bsky.graph.%2A"
      [] s = "did:plc:a" -> "did%3Aplc%3Aa"
      [] s = "did:web:b.test" -> "did%3Aweb%3Ab.test"

\* f'{n}' of an int: its decimal text; f'{b}' of a bool.
Str(n) == [decimal |-> n]
BoolStr(b) == IF b THEN "True" ELSE "False"

\* One key=value of the query string.
Param(key, value) == <<key, value>>

RECURSIVE SeqsOver(_, _)
SeqsOver(values, n) ==
    IF n = 0 THEN {<<>>}
    ELSE LET shorter == SeqsOver(values, n - 1)
         IN shorter \cup {Append(q, v) : q \in {x \in shorter : Len(x) = n - 1}, v \in values}

\* A URL built from a dict of parameters: one value per key, the last one set.
get_subscription_url_dict(size, c, colls, dids) ==
    [host |-> Host,
     query |-> (IF size > 0 THEN <<Param("max_message_size_bytes", Str(size))>> ELSE <<>>)
               \o (IF c THEN <<Param("compress", BoolStr(c))>> ELSE <<>>)
               \o (IF colls # <<>>
                   THEN <<Param("wantedCollections", quote_plus(colls[Len(colls)]))>> ELSE <<>>)
               \o (IF dids # <<>>
                   THEN <<Param("wantedDids", quote_plus(dids[Len(dids)]))>> ELSE <<>>)]

\* JetstreamClient._get_subscription_url: the host and the query parameters in
\* the order they are appended; an empty query is the bare host.
get_subscription_url(size, c, colls, dids) ==
    [host |-> Host,
     query |-> (IF size > 0 THEN <<Param("max_message_size_bytes", Str(size))>> ELSE <<>>)
               \o (IF c THEN <<Param("compress", BoolStr(c))>> ELSE <<>>)
               \o [i \in 1..Len(colls) |-> Param("wantedCollections", quote_plus(colls[i]))]
               \o [i \in 1..Len(dids) |-> Param("wantedDids", quote_plus(dids[i]))]]

\* A resume URL that leaves the cursor out.
resume_url_without_cursor(cursor, size, c, colls, dids) ==
    [host |-> Host,
     query |-> (IF size > 0 THEN <<Param("max_message_size_bytes", Str(size))>> ELSE <<>>)
               \o (IF c THEN <<Param("compress", BoolStr(c))>> ELSE <<>>)
               \o [i \in 1..Len(colls) |-> Param("wantedCollections", quote_plus(colls[i]))]
               \o [i \in 1..Len(dids) |-> Param("wantedDids", quote_plus(dids[i]))]]

\* resume_from_cursor, lines 245-256: cursor first, then the other parameters.
resume_url(cursor, size, c, colls, dids) ==
    [host |-> Host,
     query |-> <<Param("cursor", Str(cursor))>>
               \o (IF size > 0 THEN <<Param("max_message_size_bytes", Str(size))>> ELSE <<>>)
               \o (IF c THEN <<Param("compress", BoolStr(c))>> ELSE <<>>)
               \o [i \in 1..Len(colls) |-> Param("wantedCollections", quote_plus(colls[i]))]
               \o [i \in 1..Len(dids) |-> Param("wantedDids", quote_plus(dids[i]))]]

\* The URL connect() asks for with the client's configuration.
SubscriptionUrl == get_subscription_url(max_message_size_bytes, compress, collections, wanted_dids)

\* ------------------------------------------------------------ client actions

\* Connections the model lets a client hold open at once.
MaxOpen == 3

\* connect(), called by the user of the client before any iteration: a no-op
\* when there is a websocket already; a failing connect raises to the caller.
Connect ==
    /\ sub = "new"
    /\ websocket = "none"
    /\ open_sockets < MaxOpen
    /\ url' = SubscriptionUrl
    /\ \E ok \in BOOLEAN :
        IF ok THEN websocket' = "open" /\ open_sockets' = open_sockets + 1
              ELSE websocket' = "none" /\ open_sockets' = open_sockets
    /\ UNCHANGED <<sub, connection_attempts, last_cursor, received, emitted, yielded, frame, closed>>
    /\ UNCHANGED configVars
    /\ UNCHANGED consumerVars
    /\ UNCHANGED ingestVars
    /\ UNCHANGED vars

\* disconnect() / close(): close the websocket, if any, and drop it.
Disconnect ==
    /\ sub \in {"new", "raised", "done"}
    /\ websocket = "open"
    /\ websocket' = "none"
    /\ open_sockets' = open_sockets - 1
    /\ closed' = "local"
    /\ UNCHANGED <<sub, connection_attempts, last_cursor, url, received, emitted, yielded, frame>>
    /\ UNCHANGED configVars
    /\ UNCHANGED consumerVars
    /\ UNCHANGED ingestVars
    /\ UNCHANGED vars

\* resume_from_cursor(cursor), called while no generator of the client is being
\* iterated.  Without a cursor and without last_cursor it returns at once.
\* Otherwise the websocket is dropped (not closed) and a connection is asked
\* for with the resume URL; a failing connect raises and leaves no websocket.
resume_from_cursor(cursor) ==
    /\ sub \in {"new", "raised", "done"}
    /\ open_sockets < MaxOpen
    /\ cursor # <<>> \/ last_cursor # <<>>
    /\ LET resume_cursor == IF cursor # <<>> THEN cursor[1] ELSE last_cursor[1]
       IN url' = resume_url(resume_cursor, max_message_size_bytes, compress,
                            collections, wanted_dids)
    /\ \E ok \in BOOLEAN :
        IF ok THEN websocket' = "open" /\ open_sockets' = open_sockets + 1
              ELSE websocket' = "none" /\ open_sockets' = open_sockets
    /\ UNCHANGED <<sub, connection_attempts, last_cursor, received, emitted, yielded, frame,
                   closed>>
    /\ UNCHANGED configVars
    /\ UNCHANGED consumerVars
    /\ UNCHANGED ingestVars
    /\ UNCHANGED vars

\* The cursors a caller resumes from: none (use last_cursor) or a time_us.
Cursors == {<<>>, <<10>>, <<20>>}

ResumeFromCursor == \E cursor \in Cursors : resume_from_cursor(cursor)

\* subscribe() is called and iterated: connection_attempts = 0.
Subscribe ==
    /\ sub = "new"
    /\ sub' = "loop"
    /\ connection_attempts' = 0
    /\ UNCHANGED <<websocket, last_cursor, url, open_sockets, received, emitted, yielded, frame,
                   closed>>
    /\ UNCHANGED configVars
    /\ UNCHANGED consumerVars
    /\ UNCHANGED ingestVars
    /\ UNCHANGED vars

\* The while loop of subscribe() calls stream_messages(), which connects if
\* there is no websocket; a failing connect() raises into subscribe().
StreamMessages ==
    /\ sub = "loop"
    /\ connection_attempts < max_attempts
    /\ IF websocket = "none"
       THEN /\ open_sockets < MaxOpen
            /\ url' = SubscriptionUrl
            /\ \E ok \in BOOLEAN :
                 IF ok THEN websocket' = "open" /\ open_sockets' = open_sockets + 1 /\ sub' = "recv"
                       ELSE websocket' = "none" /\ open_sockets' = open_sockets /\ sub' = "except"
       ELSE websocket' = websocket /\ sub' = "recv" /\ UNCHANGED <<url, open_sockets>>
    /\ UNCHANGED <<connection_attempts, last_cursor, received, emitted, yielded, frame, closed>>
    /\ UNCHANGED configVars
    /\ UNCHANGED consumerVars
    /\ UNCHANGED ingestVars
    /\ UNCHANGED vars

\* A subscribe() that starts its count of attempts anew with every message it
\* yields.
ReceiveResetting ==
    /\ sub = "recv"
    /\ websocket = "open"
    /\ received < MaxFrames
    /\ \E f \in Frames :
        LET r == FrameResult(compress, f)
        IN /\ frame' = f
           /\ received' = received + 1
           /\ emitted' = IF r.kind = "message" THEN emitted + 1 ELSE emitted
           /\ yielded' = IF r.kind = "message" THEN Append(yielded, r.time_us) ELSE yielded
           /\ last_cursor' = IF r.kind = "message" THEN <<r.time_us>> ELSE last_cursor
           /\ connection_attempts' = IF r.kind = "message" THEN 0 ELSE connection_attempts
           /\ sub' = CASE r.kind = "message" -> "yielded"
                       [] r.kind = "skipped" -> "recv"
                       [] r.kind = "raised" -> "except"
    /\ UNCHANGED <<websocket, url, open_sockets, closed>>
    /\ UNCHANGED configVars
    /\ UNCHANGED consumerVars
    /\ UNCHANGED ingestVars
    /\ UNCHANGED vars

\* The websocket delivers a frame to stream_messages() inside subscribe(): the
\* message is yielded through subscribe() (last_cursor is set first), or the
\* frame is skipped, or an exception leaves stream_messages through
\* "except Exception: raise".
Receive ==
    /\ sub = "recv"
    /\ websocket = "open"
    /\ received < MaxFrames
    /\ \E f \in Frames :
        LET r == FrameResult(compress, f)
        IN /\ frame' = f
           /\ received' = received + 1
           /\ emitted' = IF r.kind = "message" THEN emitted + 1 ELSE emitted
           /\ yielded' = IF r.kind = "message" THEN Append(yielded, r.time_us) ELSE yielded
           /\ last_cursor' = IF r.kind = "message" THEN <<r.time_us>> ELSE last_cursor
           /\ sub' = CASE r.kind = "message" -> "yielded"
                       [] r.kind = "skipped" -> "recv"
                       [] r.kind = "raised" -> "except"
    /\ UNCHANGED <<websocket, connection_attempts, url, open_sockets, closed>>
    /\ UNCHANGED configVars
    /\ UNCHANGED consumerVars
    /\ UNCHANGED ingestVars
    /\ UNCHANGED vars

\* The caller of subscribe() asks for the next message: the generators resume
\* behind their yields.
Resume ==
    /\ sub = "yielded"
    /\ sub' = "recv"
    /\ UNCHANGED <<websocket, connection_attempts, last_cursor, url, open_sockets, received,
                   emitted, yielded, frame, closed>>
    /\ UNCHANGED configVars
    /\ UNCHANGED consumerVars
    /\ UNCHANGED ingestVars
    /\ UNCHANGED vars

\* The connection closes normally: the iteration ends, stream_messages returns,
\* and subscribe() drops the websocket, sleeps and connects again inside its try.
ClosedOK ==
    /\ sub = "recv"
    /\ websocket = "open"
    /\ url' = SubscriptionUrl
    /\ \E ok \in BOOLEAN :
        IF ok THEN websocket' = "open" /\ open_sockets' = open_sockets /\ sub' = "loop"
              ELSE websocket' = "none" /\ open_sockets' = open_sockets - 1 /\ sub' = "except"
    /\ closed' = "ok"
    /\ UNCHANGED <<connection_attempts, last_cursor, received, emitted, yielded, frame>>
    /\ UNCHANGED configVars
    /\ UNCHANGED consumerVars
    /\ UNCHANGED ingestVars
    /\ UNCHANGED vars

\* A close with an error that subscribe() counts as a failed attempt before it
\* connects again.
ClosedErrorCounted ==
    /\ sub = "recv"
    /\ websocket = "open"
    /\ connection_attempts + 1 < max_attempts
    /\ connection_attempts' = connection_attempts + 1
    /\ url' = SubscriptionUrl
    /\ websocket' = "open"
    /\ open_sockets' = open_sockets
    /\ sub' = "loop"
    /\ closed' = "error"
    /\ UNCHANGED <<last_cursor, received, emitted, yielded, frame>>
    /\ UNCHANGED configVars
    /\ UNCHANGED consumerVars
    /\ UNCHANGED ingestVars
    /\ UNCHANGED vars

\* The connection closes with an error: stream_messages sleeps, drops the
\* websocket and connects, which leaves it with a new connection (or raises
\* into subscribe()); then it returns, and subscribe() drops that websocket
\* without closing it, sleeps and connects once more.
ClosedError ==
    /\ sub = "recv"
    /\ websocket = "open"
    /\ open_sockets < MaxOpen
    /\ url' = SubscriptionUrl
    /\ \E ok1, ok2 \in BOOLEAN :
        CASE ~ok1 ->
               websocket' = "none" /\ open_sockets' = open_sockets - 1 /\ sub' = "except"
          [] ok1 /\ ~ok2 ->
               websocket' = "none" /\ open_sockets' = open_sockets /\ sub' = "except"
          [] ok1 /\ ok2 ->
               websocket' = "open" /\ open_sockets' = open_sockets + 1 /\ sub' = "loop"
    /\ closed' = "error"
    /\ UNCHANGED <<connection_attempts, last_cursor, received, emitted, yielded, frame>>
    /\ UNCHANGED configVars
    /\ UNCHANGED consumerVars
    /\ UNCHANGED ingestVars
    /\ UNCHANGED vars

\* The except branch of subscribe() below the ceiling: count the attempt, wait,
\* drop the websocket (not closed) and connect; a failing connect() leaves
\* subscribe() from inside the handler.
Retry ==
    /\ sub = "except"
    /\ connection_attempts + 1 < max_attempts
    /\ open_sockets < MaxOpen
    /\ connection_attempts' = connection_attempts + 1
    /\ url' = SubscriptionUrl
    /\ \E ok \in BOOLEAN :
        IF ok THEN websocket' = "open" /\ open_sockets' = open_sockets + 1 /\ sub' = "loop"
              ELSE websocket' = "none" /\ open_sockets' = open_sockets /\ sub' = "raised"
    /\ UNCHANGED <<last_cursor, received, emitted, yielded, frame, closed>>
    /\ UNCHANGED configVars
    /\ UNCHANGED consumerVars
    /\ UNCHANGED ingestVars
    /\ UNCHANGED vars

\* The except branch of subscribe() at the ceiling: re-raise.
GiveUp ==
    /\ sub = "except"
    /\ connection_attempts + 1 >= max_attempts
    /\ connection_attempts' = connection_attempts + 1
    /\ sub' = "raised"
    /\ UNCHANGED <<websocket, last_cursor, url, open_sockets, received, emitted, yielded, frame,
                   closed>>
    /\ UNCHANGED configVars
    /\ UNCHANGED consumerVars
    /\ UNCHANGED ingestVars
    /\ UNCHANGED vars

\* stream_messages() iterated by the caller itself (services/test_connection.py):
\* it connects if there is no websocket; a failing connect raises to the caller.
DirectStart ==
    /\ sub = "new"
    /\ IF websocket = "none"
       THEN /\ open_sockets < MaxOpen
            /\ url' = SubscriptionUrl
            /\ \E ok \in BOOLEAN :
                 IF ok THEN websocket' = "open" /\ open_sockets' = open_sockets + 1 /\ sub' = "direct"
                       ELSE websocket' = "none" /\ open_sockets' = open_sockets /\ sub' = "raised"
       ELSE websocket' = websocket /\ sub' = "direct" /\ UNCHANGED <<url, open_sockets>>
    /\ UNCHANGED <<connection_attempts, last_cursor, received, emitted, yielded, frame, closed>>
    /\ UNCHANGED configVars
    /\ UNCHANGED consumerVars
    /\ UNCHANGED ingestVars
    /\ UNCHANGED vars

\* A frame for stream_messages() iterated by the caller: the message is yielded
\* (the caller's next request is part of the step), or the frame is skipped, or
\* the exception reaches the caller.
DirectReceive ==
    /\ sub = "direct"
    /\ websocket = "open"
    /\ received < MaxFrames
    /\ \E f \in Frames :
        LET r == FrameResult(compress, f)
        IN /\ frame' = f
           /\ received' = received + 1
           /\ emitted' = IF r.kind = "message" THEN emitted + 1 ELSE emitted
           /\ yielded' = IF r.kind = "message" THEN Append(yielded, r.time_us) ELSE yielded
           /\ sub' = IF r.kind = "raised" THEN "raised" ELSE "direct"
    /\ UNCHANGED <<websocket, connection_attempts, last_cursor, url, open_sockets, closed>>
    /\ UNCHANGED configVars
    /\ UNCHANGED consumerVars
    /\ UNCHANGED ingestVars
    /\ UNCHANGED vars

\* The connection of stream_messages() iterated by the caller closes: normally,
\* and the sequence ends; or with an error, and stream_messages connects again
\* before the sequence ends (or raises if that fails).
DirectClosed ==
    /\ sub = "direct"
    /\ websocket = "open"
    /\ \E how \in {"ok", "error"}, ok \in BOOLEAN :
        /\ closed' = how
        /\ CASE how = "ok" ->
                  /\ sub' = "done"
                  /\ open_sockets' = open_sockets - 1
                  /\ UNCHANGED <<websocket, url>>
             [] how = "error" /\ ok ->
                  /\ sub' = "done"
                  /\ websocket' = "open"
                  /\ open_sockets' = open_sockets
                  /\ url' = SubscriptionUrl
             [] how = "error" /\ ~ok ->
                  /\ sub' = "raised"
                  /\ websocket' = "none"
                  /\ open_sockets' = open_sockets - 1
                  /\ url' = SubscriptionUrl
    /\ UNCHANGED <<connection_attempts, last_cursor, received, emitted, yielded, frame>>
    /\ UNCHANGED configVars
    /\ UNCHANGED consumerVars
    /\ UNCHANGED ingestVars
    /\ UNCHANGED vars

\* The worker of the persistence side, not running.
WorkerIdle ==
    /\ topic = <<>>
    /\ position = 0
    /\ committed = NoOffset
    /\ db = EmptyTables
    /\ pc = "idle"
    /\ running = FALSE
    /\ gen = "fresh"
    /\ session = "none"
    /\ records = <<>>
    /\ idx = 1
    /\ consecutive_errors = 0
    /\ backoff_time = 1
    /\ crashes = 0
    /\ cycle = "none"
    /\ outcomes = <<>>
    /\ delivered = 0
    /\ hi = 0
    /\ onceDb = EmptyTables
    /\ redelivered = FALSE

\* A client with the default filters, with or without compression.
StreamInit ==
    /\ compress \in BOOLEAN
    /\ DefaultConfig
    /\ ClientInit
    /\ IngestIdle
    /\ WorkerIdle

StreamNext ==
    \/ Connect
    \/ Disconnect
    \/ ResumeFromCursor
    \/ Subscribe
    \/ StreamMessages
    \/ Receive
    \/ Resume
    \/ ClosedOK
    \/ ClosedError
    \/ Retry
    \/ GiveUp
    \/ DirectStart
    \/ DirectReceive
    \/ DirectClosed

SpecStream == StreamInit /\ [][StreamNext]_streamVars

\* Clients of every configuration that are connected, disconnected and resumed
\* from a cursor, without iteration.
UrlInit ==
    /\ compress \in BOOLEAN
    /\ collections \in SeqsOver(CollectionValues, MaxParams)
    /\ wanted_dids \in SeqsOver(DidValues, MaxParams)
    /\ max_message_size_bytes \in SizeValues
    /\ ClientInit
    /\ IngestIdle
    /\ WorkerIdle

UrlNext ==
    \/ Connect
    \/ Disconnect
    \/ ResumeFromCursor

SpecUrl == UrlInit /\ [][UrlNext]_streamVars

\* The frame taken in this step reaches the parse and is not a message: its
\* text is no JSON, or JSON that fails the schema.
TakesFrame == received' = received + 1

Unparsable ==
    LET f == frame'
    IN /\ ~(compress /\ f.binary /\ ~(f.zstd /\ f.utf8))
       /\ \/ f.binary /\ ~compress
          \/ f.json # "object"
          \/ ~f.valid

\* C19: a frame whose text is not valid JSON or fails the envelope schema is
\* skipped: nothing is yielded for it, last_cursor stays, stream_messages goes
\* on to the next frame, no exception reaches subscribe() and no attempt is
\* counted.
C19_ParseFailureSkipped ==
    [][(TakesFrame /\ Unparsable) =>
         /\ emitted' = emitted
         /\ last_cursor' = last_cursor
         /\ sub' = sub
         /\ websocket' = websocket
         /\ connection_attempts' = connection_attempts]_streamVars

C19_Witness ==
    /\ received = MaxFrames
    /\ frame = TextBadSchema
    /\ emitted = MaxFrames - 1
    /\ sub = "recv"
    /\ connection_attempts = 0

\* The frame taken in this step fails decompression or UTF-8 decoding.
Undecodable ==
    LET f == frame'
    IN compress /\ f.binary /\ ~(f.zstd /\ f.utf8)

\* C20: a frame that fails decompression or UTF-8 decoding is skipped: the
\* sequence goes on with the next frame and the exception does not reach
\* subscribe(), so it costs no attempt.
C20_DecodeFailureSkipped ==
    [][(TakesFrame /\ Undecodable) =>
         /\ emitted' = emitted
         /\ sub' = "recv"]_streamVars

\* ------------------------------------------------------------ bus producer

\* Calls of producer.start() a caller of the KafkaClient makes.
MaxStarts == 3

\* KafkaClient.create_producer: a producer is made only when there is none.
create_producer(p) == IF p = "none" THEN "created" ELSE p

\* KafkaClient.ensure_producer: create_producer, then producer.start(), which
\* succeeds (ok) or raises.
ensure_producer(ok) ==
    /\ producer' = IF ok THEN "started" ELSE create_producer(producer)
    /\ starts' = starts + 1

\* KafkaClient.produce_msg up to its send: ensure_producer, whose exception
\* leaves produce_msg as it is, then the send is under way.
produce_msg(value, has_id, ok) ==
    /\ ensure_producer(ok)
    /\ sends' = 0
    /\ IF ok THEN /\ pending' = <<[value |-> value, has_id |-> has_id]>>
                  /\ produced' = "calling"
             ELSE /\ pending' = <<>>
                  /\ produced' = "start_raised"
    /\ published' = published

\* A send that is tried a second time when it fails.
send_and_wait_retrying(ok) ==
    /\ pending # <<>>
    /\ sends' = IF ok THEN sends + 1 ELSE sends + 2
    /\ published' = IF ok THEN Append(published, pending[1].value) ELSE published
    /\ produced' = IF ~ok THEN "send_raised"
                   ELSE IF pending[1].has_id THEN "returned" ELSE "log_raised"
    /\ pending' = <<>>
    /\ UNCHANGED <<producer, starts>>

\* The try block of produce_msg: one send_and_wait, which succeeds (ok) or
\* raises; after a send that succeeded the log line reads msg['id'], a KeyError
\* for a message without that key; every exception is raised again as
\* Exception(e).
send_and_wait(ok) ==
    /\ pending # <<>>
    /\ sends' = sends + 1
    /\ published' = IF ok THEN Append(published, pending[1].value) ELSE published
    /\ produced' = IF ~ok THEN "send_raised"
                   ELSE IF pending[1].has_id THEN "returned" ELSE "log_raised"
    /\ pending' = <<>>
    /\ UNCHANGED <<producer, starts>>

\* KafkaClient.close_producer: producer.stop() if there is a producer; the
\* producer is kept.
close_producer(p) == IF p = "none" THEN "none" ELSE "stopped"

\* A caller calls ensure_producer().
EnsureProducer ==
    /\ pending = <<>>
    /\ starts < MaxStarts
    /\ \E ok \in BOOLEAN : ensure_producer(ok)
    /\ UNCHANGED <<sends, produced, pending, published, ingest_pc, ingest_running, stop_at>>
    /\ UNCHANGED <<websocket, sub, connection_attempts, last_cursor, url, open_sockets, received,
                   emitted, yielded, frame, closed>>
    /\ UNCHANGED configVars
    /\ UNCHANGED consumerVars
    /\ UNCHANGED vars

\* A caller calls produce_msg() with a message that has an 'id' key
\* (services/test_connection.py) or has none (Message.model_dump()).
ProduceMsg ==
    /\ pending = <<>>
    /\ starts < MaxStarts
    /\ \E value \in {10, 20}, has_id \in BOOLEAN, ok \in BOOLEAN : produce_msg(value, has_id, ok)
    /\ UNCHANGED <<ingest_pc, ingest_running, stop_at>>
    /\ UNCHANGED <<websocket, sub, connection_attempts, last_cursor, url, open_sockets, received,
                   emitted, yielded, frame, closed>>
    /\ UNCHANGED configVars
    /\ UNCHANGED consumerVars
    /\ UNCHANGED vars

\* The send of the caller's produce_msg() completes.
SendAndWait ==
    /\ \E ok \in BOOLEAN : send_and_wait(ok)
    /\ UNCHANGED <<ingest_pc, ingest_running, stop_at>>
    /\ UNCHANGED <<websocket, sub, connection_attempts, last_cursor, url, open_sockets, received,
                   emitted, yielded, frame, closed>>
    /\ UNCHANGED configVars
    /\ UNCHANGED consumerVars
    /\ UNCHANGED vars

\* A caller calls close_producer().
CloseProducer ==
    /\ pending = <<>>
    /\ producer' = close_producer(producer)
    /\ UNCHANGED <<starts, sends, produced, pending, published, ingest_pc, ingest_running, stop_at>>
    /\ UNCHANGED <<websocket, sub, connection_attempts, last_cursor, url, open_sockets, received,
                   emitted, yielded, frame, closed>>
    /\ UNCHANGED configVars
    /\ UNCHANGED consumerVars
    /\ UNCHANGED vars

\* KafkaClient.json_serializer: the bytes of the JSON text of the message. The
\* producer has it as value_serializer; the consumer has no value_deserializer,
\* so msg.value is these bytes.
json_serializer(data) == [type |-> "bytes", data |-> data.data]

\* The message a caller passes to produce_msg: a dict.
Dict(value) == [type |-> "dict", data |-> value]

\* KafkaClient.create_consumer: a consumer is made only when there is none, with
\* no topics, enable_auto_commit = False and the default auto_offset_reset
\* ("latest"); _consumer_closing is reset only then.
create_consumer(c) == IF c = "none" THEN "created" ELSE c

\* KafkaClient.ensure_consumer: create_consumer, then consumer.start(), which
\* succeeds (ok) or raises. Nothing subscribes the consumer.
ensure_consumer(ok) ==
    /\ consumer' = IF ok THEN "started" ELSE create_consumer(consumer)
    /\ consumer_closing' = IF consumer = "none" THEN FALSE ELSE consumer_closing
    /\ UNCHANGED <<subscribed, fetch_position, group_offset>>

\* KafkaClient.close_consumer: _consumer_closing = True and consumer.stop() if
\* there is a consumer; the consumer is kept.
close_consumer(c) == IF c = "none" THEN "none" ELSE "stopped"

\* A caller starts iterating consume_msg(): ensure_consumer, outside the try
\* block, then the async for over the consumer.
ConsumeMsg ==
    /\ consume_pc \in {"none", "raised", "ended", "closed"}
    /\ \E ok \in BOOLEAN :
         /\ ensure_consumer(ok)
         /\ consume_pc' = IF ok THEN "waiting" ELSE "raised"
    /\ UNCHANGED consumed
    /\ UNCHANGED ingestVars
    /\ UNCHANGED <<websocket, sub, connection_attempts, last_cursor, url, open_sockets, received,
                   emitted, yielded, frame, closed>>
    /\ UNCHANGED configVars
    /\ UNCHANGED vars

\* A caller subscribes client.consumer to the topic, as PersistenceWorker.run
\* does after start(): the position is the group's committed offset, or the
\* end of the topic when the group has none (auto_offset_reset "latest").
SubscribeConsumer ==
    /\ consumer = "started"
    /\ ~subscribed
    /\ subscribed' = TRUE
    /\ fetch_position' = IF group_offset = NoOffset THEN Len(published) ELSE group_offset
    /\ UNCHANGED <<consumer, consumer_closing, group_offset, consumed, consume_pc>>
    /\ UNCHANGED ingestVars
    /\ UNCHANGED <<websocket, sub, connection_attempts, last_cursor, url, open_sockets, received,
                   emitted, yielded, frame, closed>>
    /\ UNCHANGED configVars
    /\ UNCHANGED vars

\* The async for of consume_msg gets the next message of the subscription: it
\* breaks when _consumer_closing is set and yields msg.value otherwise.
GetOne ==
    /\ consume_pc = "waiting"
    /\ consumer = "started"
    /\ subscribed
    /\ fetch_position < Len(published)
    /\ fetch_position' = fetch_position + 1
    /\ IF consumer_closing
       THEN /\ consume_pc' = "ended"
            /\ consumed' = consumed
       ELSE /\ consume_pc' = "yielded"
            /\ consumed' = Append(consumed, json_serializer(Dict(published[fetch_position + 1])))
    /\ UNCHANGED <<consumer, consumer_closing, subscribed, group_offset>>
    /\ UNCHANGED ingestVars
    /\ UNCHANGED <<websocket, sub, connection_attempts, last_cursor, url, open_sockets, received,
                   emitted, yielded, frame, closed>>
    /\ UNCHANGED configVars
    /\ UNCHANGED vars

\* The caller asks for the next message: consume_msg goes on after its yield
\* with consumer.commit(), which succeeds (ok) or raises; the exception is
\* logged and ends the generator.
ConsumerCommit ==
    /\ consume_pc = "yielded"
    /\ \E ok \in BOOLEAN :
         /\ ok => consumer = "started"
         /\ group_offset' = IF ok THEN fetch_position ELSE group_offset
         /\ consume_pc' = IF ok THEN "waiting" ELSE "ended"
    /\ UNCHANGED <<consumer, consumer_closing, subscribed, fetch_position, consumed>>
    /\ UNCHANGED ingestVars
    /\ UNCHANGED <<websocket, sub, connection_attempts, last_cursor, url, open_sockets, received,
                   emitted, yielded, frame, closed>>
    /\ UNCHANGED configVars
    /\ UNCHANGED vars

\* The caller leaves its loop at a yielded message (the break of
\* tests/test_message_flow.py): the generator is closed at its yield and the
\* commit after it never runs.
ConsumerBreak ==
    /\ consume_pc = "yielded"
    /\ consume_pc' = "closed"
    /\ UNCHANGED <<consumer, consumer_closing, subscribed, fetch_position, group_offset, consumed>>
    /\ UNCHANGED ingestVars
    /\ UNCHANGED <<websocket, sub, connection_attempts, last_cursor, url, open_sockets, received,
                   emitted, yielded, frame, closed>>
    /\ UNCHANGED configVars
    /\ UNCHANGED vars

\* A caller calls close_consumer().
CloseConsumer ==
    /\ consumer' = close_consumer(consumer)
    /\ consumer_closing' = IF consumer = "none" THEN consumer_closing ELSE TRUE
    /\ UNCHANGED <<subscribed, fetch_position, group_offset, consumed, consume_pc>>
    /\ UNCHANGED ingestVars
    /\ UNCHANGED <<websocket, sub, connection_attempts, last_cursor, url, open_sockets, received,
                   emitted, yielded, frame, closed>>
    /\ UNCHANGED configVars
    /\ UNCHANGED vars

\* The async for of consume_msg on a consumer that was stopped ends.
ConsumerStopped ==
    /\ consume_pc = "waiting"
    /\ consumer = "stopped"
    /\ consume_pc' = "ended"
    /\ UNCHANGED <<consumer, consumer_closing, subscribed, fetch_position, group_offset, consumed>>
    /\ UNCHANGED ingestVars
    /\ UNCHANGED <<websocket, sub, connection_attempts, last_cursor, url, open_sockets, received,
                   emitted, yielded, frame, closed>>
    /\ UNCHANGED configVars
    /\ UNCHANGED vars

\* A KafkaClient and its callers, no stream.
KafkaInit ==
    /\ compress = FALSE
    /\ DefaultConfig
    /\ ClientInit
    /\ IngestIdle
    /\ WorkerIdle

KafkaNext ==
    \/ EnsureProducer
    \/ ProduceMsg
    \/ SendAndWait
    \/ CloseProducer
    \/ ConsumeMsg
    \/ SubscribeConsumer
    \/ GetOne
    \/ ConsumerCommit
    \/ ConsumerBreak
    \/ CloseConsumer
    \/ ConsumerStopped

SpecKafka == KafkaInit /\ [][KafkaNext]_streamVars

\* The consumer's own steps are taken when they stay possible: the delivery of
\* a message that is there, the end of the iteration of a stopped consumer.
SpecKafkaLive ==
    /\ KafkaInit
    /\ [][KafkaNext]_streamVars
    /\ WF_streamVars(GetOne)
    /\ WF_streamVars(ConsumerStopped)

\* ------------------------------------------------------------ ingestion worker

\* IngestClient.stop: running = False, jetstream_client.close(),
\* kafka_client.close_producer().
ingest_stop ==
    /\ ingest_running' = FALSE
    /\ websocket' = "none"
    /\ open_sockets' = IF websocket = "open" THEN open_sockets - 1 ELSE open_sockets
    /\ producer' = close_producer(producer)

\* stream_data() begins: running = True and jetstream_client.connect(), whose
\* exception ends stream_data (it is outside the try).
StreamData ==
    /\ ingest_pc = "new"
    /\ ingest_running' = TRUE
    /\ url' = SubscriptionUrl
    /\ \E ok \in BOOLEAN :
        IF ok THEN websocket' = "open" /\ open_sockets' = open_sockets + 1 /\ ingest_pc' = "ensure"
              ELSE websocket' = "none" /\ open_sockets' = open_sockets /\ ingest_pc' = "failed"
    /\ UNCHANGED <<producer, starts, sends, produced, pending, published, stop_at>>
    /\ UNCHANGED <<sub, connection_attempts, last_cursor, received, emitted, yielded, frame, closed>>
    /\ UNCHANGED configVars
    /\ UNCHANGED consumerVars
    /\ UNCHANGED vars

\* stream_data(): kafka_client.ensure_producer(), whose exception ends
\* stream_data too; then subscribe() is iterated: connection_attempts = 0.
IngestEnsureProducer ==
    /\ ingest_pc = "ensure"
    /\ \E ok \in BOOLEAN :
        /\ ensure_producer(ok)
        /\ IF ok THEN ingest_pc' = "iterating" /\ sub' = "loop" /\ connection_attempts' = 0
                 ELSE ingest_pc' = "failed" /\ UNCHANGED <<sub, connection_attempts>>
    /\ UNCHANGED <<sends, produced, pending, published, ingest_running, stop_at>>
    /\ UNCHANGED <<websocket, last_cursor, url, open_sockets, received, emitted, yielded, frame,
                   closed>>
    /\ UNCHANGED configVars
    /\ UNCHANGED consumerVars
    /\ UNCHANGED vars

\* The loop body for a yielded message while running: process_message calls
\* produce_msg(TOPIC_FIREHOSE_RAW, message.model_dump()); an exception of
\* ensure_producer is logged by process_message and the next message is asked
\* for.
ProcessMessage ==
    /\ ingest_pc = "iterating"
    /\ sub = "yielded"
    /\ ingest_running
    /\ \E ok \in BOOLEAN :
        /\ produce_msg(yielded[Len(yielded)], FALSE, ok)
        /\ IF ok THEN ingest_pc' = "send" /\ sub' = sub
                 ELSE ingest_pc' = "iterating" /\ sub' = "recv"
    /\ UNCHANGED <<ingest_running, stop_at>>
    /\ UNCHANGED <<websocket, connection_attempts, last_cursor, url, open_sockets, received,
                   emitted, yielded, frame, closed>>
    /\ UNCHANGED configVars
    /\ UNCHANGED consumerVars
    /\ UNCHANGED vars

\* The send of process_message completes; whatever produce_msg raises is
\* logged by process_message, and the next message is asked for.
IngestSend ==
    /\ ingest_pc = "send"
    /\ \E ok \in BOOLEAN : send_and_wait(ok)
    /\ ingest_pc' = "iterating"
    /\ sub' = "recv"
    /\ UNCHANGED <<ingest_running, stop_at>>
    /\ UNCHANGED <<websocket, connection_attempts, last_cursor, url, open_sockets, received,
                   emitted, yielded, frame, closed>>
    /\ UNCHANGED configVars
    /\ UNCHANGED consumerVars
    /\ UNCHANGED vars

\* The loop body for a yielded message when running is False: break, and the
\* finally clause calls stop().
Break ==
    /\ ingest_pc = "iterating"
    /\ sub = "yielded"
    /\ ~ingest_running
    /\ ingest_stop
    /\ ingest_pc' = "done"
    /\ sub' = "done"
    /\ UNCHANGED <<starts, sends, produced, pending, published, stop_at>>
    /\ UNCHANGED <<connection_attempts, last_cursor, url, received, emitted, yielded, frame, closed>>
    /\ UNCHANGED configVars
    /\ UNCHANGED consumerVars
    /\ UNCHANGED vars

\* subscribe() raised: the exception is logged and the finally clause calls
\* stop().
IngestFinally ==
    /\ ingest_pc = "iterating"
    /\ sub = "raised"
    /\ ingest_stop
    /\ ingest_pc' = "done"
    /\ UNCHANGED <<starts, sends, produced, pending, published, stop_at>>
    /\ UNCHANGED <<sub, connection_attempts, last_cursor, url, received, emitted, yielded, frame,
                   closed>>
    /\ UNCHANGED configVars
    /\ UNCHANGED consumerVars
    /\ UNCHANGED vars

\* stop() is called from outside (the shutdown of main.py) while stream_data
\* waits: for a frame, in the sleep of subscribe()'s except branch, or for a
\* send.
ExternalStop ==
    /\ stop_at = -1
    /\ \/ ingest_pc = "send"
       \/ ingest_pc = "iterating" /\ sub \in {"recv", "except"}
    /\ ingest_stop
    /\ stop_at' = Len(yielded)
    /\ UNCHANGED <<starts, sends, produced, pending, published, ingest_pc>>
    /\ UNCHANGED <<sub, connection_attempts, last_cursor, url, received, emitted, yielded, frame,
                   closed>>
    /\ UNCHANGED configVars
    /\ UNCHANGED consumerVars
    /\ UNCHANGED vars

\* The connection stream_messages() iterates was closed by close(): the
\* iteration ends, stream_messages returns, and subscribe() drops the
\* websocket, sleeps and connects again.
ClosedLocally ==
    /\ sub = "recv"
    /\ websocket = "none"
    /\ open_sockets < MaxOpen
    /\ url' = SubscriptionUrl
    /\ \E ok \in BOOLEAN :
        IF ok THEN websocket' = "open" /\ open_sockets' = open_sockets + 1 /\ sub' = "loop"
              ELSE websocket' = "none" /\ open_sockets' = open_sockets /\ sub' = "except"
    /\ closed' = "local"
    /\ UNCHANGED <<connection_attempts, last_cursor, received, emitted, yielded, frame>>
    /\ UNCHANGED configVars
    /\ UNCHANGED consumerVars
    /\ UNCHANGED ingestVars
    /\ UNCHANGED vars

\* An IngestClient: a JetstreamClient() and a KafkaClient().
IngestInit ==
    /\ compress = FALSE
    /\ DefaultConfig
    /\ ClientInit
    /\ IngestIdle
    /\ WorkerIdle

IngestNext ==
    \/ StreamData
    \/ IngestEnsureProducer
    \/ StreamMessages
    \/ Receive
    \/ ClosedOK
    \/ ClosedError
    \/ ClosedLocally
    \/ Retry
    \/ GiveUp
    \/ ProcessMessage
    \/ IngestSend
    \/ Break
    \/ IngestFinally
    \/ ExternalStop

SpecIngest == IngestInit /\ [][IngestNext]_streamVars

\* ------------------------------------------------------------ claims C21-C26

\* A step in which the connection subscribe() iterates is closed by the server.
RemoteClose ==
    /\ sub = "recv"
    /\ received' = received
    /\ streamVars' # streamVars

\* C21: a close by the server, normal or with an error, neither ends
\* subscribe() nor costs an attempt: when the reconnect succeeds the client
\* has a websocket again and subscribe() is back in its loop; it is in its
\* except branch only when the reconnect itself failed.
C21_RemoteCloseNotCounted ==
    [][RemoteClose =>
         /\ connection_attempts' = connection_attempts
         /\ sub' \in {"loop", "except"}
         /\ (sub' = "loop") = (websocket' = "open")]_streamVars

C21_Witness ==
    /\ closed = "error"
    /\ sub = "yielded"
    /\ received = 1
    /\ yielded = <<10>>
    /\ connection_attempts = 0
    /\ websocket = "open"

\* C22: the client never holds more than one open connection.
C22_OneOpenSocket == open_sockets <= 1

\* C23: last_cursor is None until the first message is yielded and is the
\* time_us of the message yielded last ever after.
C23_CursorIsLastYielded ==
    last_cursor = IF yielded = <<>> THEN <<>> ELSE <<yielded[Len(yielded)]>>

\* The resume URL is the subscription URL of the same configuration with the
\* cursor put in front, for every configuration.
ResumeUrlAddsCursor ==
    \A size \in SizeValues, c \in BOOLEAN, cursor \in {10, 20} :
      \A colls \in SeqsOver(CollectionValues, MaxParams), dids \in SeqsOver(DidValues, MaxParams) :
        LET normal == get_subscription_url(size, c, colls, dids)
        IN resume_url(cursor, size, c, colls, dids) =
             [host |-> normal.host, query |-> <<Param("cursor", Str(cursor))>> \o normal.query]

\* C24: resume_from_cursor() without an argument, after messages were yielded,
\* asks for the URL that has cursor=<last_cursor> and then the size,
\* compression, collection and DID parameters of the subscription URL.
C24_ResumeUrlKeepsParameters ==
    [][resume_from_cursor(<<>>) =>
         /\ url' = [host |-> SubscriptionUrl.host,
                    query |-> <<Param("cursor", Str(last_cursor[1]))>> \o SubscriptionUrl.query]
         /\ (yielded = <<10>> /\ received = 1 => ResumeUrlAddsCursor)]_streamVars

C24_Witness ==
    /\ closed = "error"
    /\ sub = "raised"
    /\ last_cursor = <<20>>
    /\ websocket = "open"
    /\ compress
    /\ url = [host |-> Host,
              query |-> <<Param("cursor", Str(20)), Param("compress", "True")>>]

\* C25: subscribe() raises only with the fifth counted exception.
C25_RaisesOnlyAtCeiling ==
    [][(sub = "except" /\ sub' = "raised") => connection_attempts' = max_attempts]_streamVars

\* The values of the parameters of a query that have the key k, in order.
ValuesOf(query, k) ==
    LET HasKey(p) == p[1] = k
        ps == SelectSeq(query, HasKey)
    IN [i \in 1..Len(ps) |-> ps[i][2]]

\* C26: the URL connect() asks for has max_message_size_bytes only for a size
\* above 0, compress only with compression on, one wantedCollections per
\* collection and one wantedDids per DID, in the configured order with repeats
\* kept, and nothing else; with nothing configured it is the bare host.
C26_SubscriptionUrlParameters ==
    [][Connect =>
         LET query == url'.query
         IN /\ url'.host = Host
            /\ ValuesOf(query, "max_message_size_bytes") =
                 IF max_message_size_bytes > 0 THEN <<Str(max_message_size_bytes)>> ELSE <<>>
            /\ ValuesOf(query, "compress") = IF compress THEN <<"True">> ELSE <<>>
            /\ ValuesOf(query, "wantedCollections") =
                 [i \in 1..Len(collections) |-> quote_plus(collections[i])]
            /\ ValuesOf(query, "wantedDids") =
                 [i \in 1..Len(wanted_dids) |-> quote_plus(wanted_dids[i])]
            /\ Len(query) = (IF max_message_size_bytes > 0 THEN 1 ELSE 0)
                            + (IF compress THEN 1 ELSE 0) + Len(collections) + Len(wanted_dids)
            /\ \A i, j \in 1..Len(query) :
                 (i < j /\ query[i][1] = "wantedDids") => query[j][1] = "wantedDids"
            /\ (max_message_size_bytes = 0 /\ ~compress /\ collections = <<>>
                  /\ wanted_dids = <<>>) => query = <<>>]_streamVars

C26_Witness ==
    /\ websocket = "open"
    /\ collections = <<"app.bsky.graph.*", "app.bsky.graph.*">>
    /\ wanted_dids = <<"did:web:b.test", "did:plc:a">>
    /\ max_message_size_bytes = 1024
    /\ compress
    /\ url = [host |-> Host,
              query |-> <<Param("max_message_size_bytes", Str(1024)), Param("compress", "True"),
                          Param("wantedCollections", "app.bsky.graph.%2A"),
                          Param("wantedCollections", "app.bsky.graph.%2A"),
                          Param("wantedDids", "did%3Aweb%3Ab.test"),
                          Param("wantedDids", "did%3Aplc%3Aa")>>]

\* ------------------------------------------------------------ claims C27-C30

\* C27: while the ingestion worker runs, whenever it asks subscribe() for the
\* next message the raw topic holds every message yielded so far, once each
\* and in the order of the yields.
C27_PublishedAsYielded ==
    (ingest_running /\ ingest_pc = "iterating" /\ sub # "yielded") => published = yielded

\* C28: once stop() has returned, no websocket is opened, the client has no
\* websocket, the producer is not started, and no message yielded after the
\* stop is published.
C28_StopIsFinal ==
    [][stop_at >= 0 =>
         /\ open_sockets' <= open_sockets
         /\ websocket' = "none"
         /\ producer' # "started"
         /\ (published' # published => Len(yielded) <= stop_at)]_streamVars

\* C29 as stated: every produce_msg call that has ended made exactly one send.
C29_ExactlyOneSend ==
    produced \in {"start_raised", "send_raised", "log_raised", "returned"} => sends = 1

\* C29: produce_msg sends at most once: exactly once when ensure_producer
\* returned, not at all when it raised; a send that fails makes produce_msg
\* raise, and its message is not on the topic.
C29_AtMostOneSend ==
    [][/\ sends' <= 1
       /\ (produced' \in {"send_raised", "log_raised", "returned"} => sends' = 1)
       /\ (produced' \in {"calling", "start_raised"} => sends' = 0)
       /\ (sends' > sends /\ published' = published) =>
            (produced' = "send_raised" /\ sends' = sends + 1)]_streamVars

C29_Witness ==
    /\ produced = "send_raised"
    /\ sends = 1
    /\ starts = 2
    /\ published = <<10>>

\* C30: producer.start() is called once at most.
C30_StartedOnce == starts <= 1

\* ------------------------------------------------------------ claims C34, C36, C37, C39, C40

\* C34: when subscribe() raises at its ceiling inside the ingestion worker,
\* stream_data() ends with the exception, not with a normal return.
C34_FailureReportedUpward ==
    [][(/\ ingest_pc = "iterating"
        /\ sub = "raised"
        /\ connection_attempts = max_attempts
        /\ ingest_pc' # ingest_pc) =>
         ingest_pc' = "failed"]_streamVars

\* A step in which stream_messages() or subscribe() connects again by itself.
Reconnects ==
    /\ sub \in {"recv", "except"}
    /\ received' = received
    /\ websocket' = "open"

\* C36: once a message has been yielded, every connection subscribe() and
\* stream_messages() open by themselves is asked for with cursor = last_cursor.
C36_ReconnectFromCursor ==
    [][(last_cursor # <<>> /\ Reconnects) =>
         url' = resume_url(last_cursor[1], max_message_size_bytes, compress,
                           collections, wanted_dids)]_streamVars

\* C37: the attempt counter never goes down, whatever is yielded in between,
\* and subscribe() has raised whenever the counter is at the ceiling.
C37_AttemptsCumulative ==
    [][/\ connection_attempts' >= connection_attempts
       /\ connection_attempts' = max_attempts => sub' = "raised"]_streamVars

C37_Witness ==
    /\ sub = "raised"
    /\ connection_attempts = max_attempts
    /\ emitted = MaxFrames
    /\ closed = "ok"

\* C39: in the ingestion worker, every message yielded up to last_cursor is on
\* the topic.
C39_CursorBehindPublished ==
    last_cursor # <<>> => published = yielded

\* C40: a send the bus accepted makes produce_msg return normally.
C40_AcceptedSendReturns ==
    [][(sends' > sends /\ published' # published) => produced' = "returned"]_streamVars

\* ------------------------------------------------------------ claims C32, C33, C38

\* The objects a JSON text may decode to: any kind, known or not, with any of
\* the three payload fields present.
Payloads ==
    {[did |-> D1, kind |-> k, commit |-> c, identity |-> i, account |-> a] :
        k \in Kinds \cup {"other"},
        c \in {None, CommitOf("rev1", "create", FeedPost, "rk1", None)},
        i \in {None, [did |-> D1, handle |-> "alice.test", seq |-> 2]},
        a \in {None, [active |-> FALSE, did |-> D1, seq |-> 2]}}

\* The payload fields of a message that are present.
Populated(obj) ==
    {k \in Kinds : obj[k] # None}

\* Messages are validated one after the other: Message.model_validate inside
\* deserialize_message, as in stream_messages.
ValidateMessage ==
    /\ pc = "idle"
    /\ idx <= Len(topic)
    /\ outcomes' = Append(outcomes, IF deserialize_message(topic[idx]) # None
                                    THEN "accepted" ELSE "rejected")
    /\ idx' = idx + 1
    /\ UNCHANGED <<topic, position, committed, db, pc, running, gen, session, records,
                   consecutive_errors, backoff_time, crashes, cycle>>
    /\ UNCHANGED <<delivered, hi, onceDb, redelivered>>
    /\ UNCHANGED streamVars

\* Up to MaxLog decoded objects waiting to be validated.
ValidateInit ==
    /\ topic \in SeqsOver({Wire(obj) : obj \in Payloads}, MaxLog)
    /\ position = 0
    /\ committed = NoOffset
    /\ db = EmptyTables
    /\ pc = "idle"
    /\ running = FALSE
    /\ gen = "fresh"
    /\ session = "none"
    /\ records = <<>>
    /\ idx = 1
    /\ consecutive_errors = 0
    /\ backoff_time = 1
    /\ crashes = 0
    /\ cycle = "none"
    /\ outcomes = <<>>
    /\ delivered = 0
    /\ hi = 0
    /\ onceDb = EmptyTables
    /\ redelivered = FALSE
    /\ compress = FALSE
    /\ DefaultConfig
    /\ ClientInit
    /\ IngestIdle

ValidateNext ==
    \/ ValidateMessage

SpecValidate == ValidateInit /\ [][ValidateNext]_vars

\* C32: a message that Message.model_validate accepts has the payload field of
\* its kind and no other.
C32_KindDeterminesPayload ==
    \A i \in 1..Len(outcomes) :
        outcomes[i] = "accepted" => Populated(topic[i].obj) = {topic[i].obj.kind}

C38_HandleFromIdentity ==
    [][(Handles("applied") /\ CurrentMessage.kind = "identity") =>
         GetBy(db'.users, "did", CurrentMessage.did).handle
             \notin {"unknown-12345678", "user_12345678"}]_vars

\* ------------------------------------------------------------ claim C31

\* C31: once produce_msg returned and consume_msg of the same client is
\* iterated, consume_msg yields a value that equals a published one, unless the
\* iteration is ended before that.
C31_PublishedIsDelivered ==
    (produced = "returned" /\ consume_pc = "waiting")
        ~> \/ \E i \in 1..Len(consumed), j \in 1..Len(published) : consumed[i] = Dict(published[j])
           \/ consume_pc \in {"raised", "ended", "closed"}

\* ------------------------------------------------------------ run() and stop(), step by step

allVars == <<vars, streamVars>>

\* What a step of run() or stop() leaves alone outside the worker and its
\* consumer.
NoClientStep ==
    /\ UNCHANGED <<fetch_position, group_offset, consumed, consume_pc>>
    /\ UNCHANGED ingestVars
    /\ UNCHANGED <<websocket, sub, connection_attempts, last_cursor, url, open_sockets, received,
                   emitted, yielded, frame, closed>>
    /\ UNCHANGED configVars

\* Where run() is between the entry of its loop and its return.
InLoop == pc \in {"loop", "closing", "polling", "batch", "sleeping"}

\* run() up to the loop: running = True, create_consumer, consumer.start(),
\* which succeeds (ok) or raises through the finally, and subscribe.
RunStarted ==
    /\ pc = "idle"
    /\ running' = TRUE
    /\ \E ok \in BOOLEAN :
         /\ consumer' = IF ok THEN "started" ELSE close_consumer(create_consumer(consumer))
         /\ consumer_closing' = ~ok
         /\ subscribed' = ok
         /\ pc' = IF ok THEN "loop" ELSE "raised"
    /\ consecutive_errors' = 0
    /\ backoff_time' = 1
    /\ cycle' = "none"
    /\ UNCHANGED <<topic, position, committed, db, gen, session, records, idx, crashes>>
    /\ UNCHANGED historyVars
    /\ NoClientStep

\* A loop head that does not look at the flag.
LoopHeadIgnoringFlag ==
    /\ pc = "loop"
    /\ IF gen = "fresh"
       THEN /\ gen' = "suspended"
            /\ session' = "open"
            /\ pc' = "polling"
       ELSE /\ pc' = "closing"
            /\ UNCHANGED <<gen, session>>
    /\ cycle' = "none"
    /\ UNCHANGED <<topic, position, committed, db, running, records, idx, consecutive_errors,
                   backoff_time, crashes>>
    /\ UNCHANGED historyVars
    /\ UNCHANGED streamVars

\* while self.running, then get_db_session(): a fresh generator yields its
\* session without suspending and getmany(timeout_ms=1000) is called; a
\* generator left at its yield is resumed into its await session.close().
LoopHead ==
    /\ pc = "loop"
    /\ running
    /\ IF gen = "fresh"
       THEN /\ gen' = "suspended"
            /\ session' = "open"
            /\ pc' = "polling"
       ELSE /\ pc' = "closing"
            /\ UNCHANGED <<gen, session>>
    /\ cycle' = "none"
    /\ UNCHANGED <<topic, position, committed, db, running, records, idx, consecutive_errors,
                   backoff_time, crashes>>
    /\ UNCHANGED historyVars
    /\ UNCHANGED streamVars

\* The except branch of the loop up to its sleep.
ExceptBranch ==
    /\ running => consecutive_errors < MaxErrors
    /\ consecutive_errors' = BreakerOnError(consecutive_errors, backoff_time).errors
    /\ backoff_time' = BreakerOnError(consecutive_errors, backoff_time).backoff
    /\ cycle' = "failed"
    /\ pc' = "sleeping"

\* The generator ends after session.close(): get_db_session() raises
\* RuntimeError.
SessionRaises ==
    /\ pc = "closing"
    /\ gen' = "exhausted"
    /\ session' = "closed"
    /\ ExceptBranch
    /\ UNCHANGED <<topic, position, committed, db, running, records, idx, crashes>>
    /\ UNCHANGED historyVars
    /\ UNCHANGED streamVars

\* getmany() is over: no records after its timeout (continue), n > 0 records,
\* or an exception, as from a consumer that was stopped meanwhile.
GetManyReturns ==
    /\ pc = "polling"
    /\ \/ /\ consecutive_errors' = BreakerOnEmpty(consecutive_errors, backoff_time).errors
          /\ backoff_time' = BreakerOnEmpty(consecutive_errors, backoff_time).backoff
          /\ cycle' = "empty"
          /\ pc' = "loop"
          /\ UNCHANGED <<position, records, idx, outcomes>>
       \/ /\ \E n \in 1..Min2(MaxPoll, Len(topic) - position) :
               /\ records' = SubSeq(topic, position + 1, position + n)
               /\ position' = position + n
          /\ idx' = 1
          /\ outcomes' = <<>>
          /\ pc' = "batch"
          /\ UNCHANGED <<consecutive_errors, backoff_time, cycle>>
       \/ /\ ExceptBranch
          /\ UNCHANGED <<position, records, idx, outcomes>>
    /\ UNCHANGED <<topic, committed, db, running, gen, session, crashes>>
    /\ UNCHANGED <<delivered, hi, onceDb, redelivered>>
    /\ UNCHANGED streamVars

\* The next message of the batch: deserialize_message and, for a message,
\* process_message; an exception that leaves process_message ends the cycle in
\* the except branch.
BatchMessage ==
    /\ pc = "batch" /\ idx <= Len(records)
    /\ LET message == deserialize_message(records[idx])
           r == IF message = None THEN [db |-> db, outcome |-> "dropped", raised |-> FALSE]
                ELSE process_message(db, message)
       IN /\ db' = r.db
          /\ Handled(records[idx], r.outcome)
          /\ IF r.raised
             THEN /\ ExceptBranch
                  /\ records' = <<>>
                  /\ idx' = 1
             ELSE /\ idx' = idx + 1
                  /\ UNCHANGED <<pc, cycle, records, consecutive_errors, backoff_time>>
    /\ UNCHANGED <<topic, position, committed, running, gen, session, crashes>>
    /\ UNCHANGED streamVars

\* consumer.commit() after the last message: it returns and the breaker is
\* reset, or it raises, as on a consumer that was stopped meanwhile.
BatchCommit ==
    /\ pc = "batch" /\ idx > Len(records)
    /\ \/ /\ committed' = position
          /\ consecutive_errors' = 0
          /\ backoff_time' = 1
          /\ cycle' = "committed"
          /\ pc' = "loop"
       \/ /\ ExceptBranch
          /\ UNCHANGED committed
    /\ records' = <<>>
    /\ idx' = 1
    /\ outcomes' = <<>>
    /\ UNCHANGED <<topic, position, db, running, gen, session, crashes>>
    /\ UNCHANGED <<delivered, hi, onceDb, redelivered>>
    /\ UNCHANGED streamVars

\* asyncio.sleep(backoff_time) is over.
SleepOver ==
    /\ pc = "sleeping"
    /\ pc' = "loop"
    /\ UNCHANGED <<topic, position, committed, db, running, gen, session, records, idx,
                   consecutive_errors, backoff_time, crashes, cycle>>
    /\ UNCHANGED historyVars
    /\ UNCHANGED streamVars

\* stop(), called from another task wherever run() is suspended: running =
\* False and close_consumer().
StopCalled ==
    /\ InLoop
    /\ running
    /\ running' = FALSE
    /\ consumer' = close_consumer(consumer)
    /\ consumer_closing' = TRUE
    /\ UNCHANGED subscribed
    /\ UNCHANGED <<topic, position, committed, db, pc, gen, session, records, idx,
                   consecutive_errors, backoff_time, crashes, cycle>>
    /\ UNCHANGED historyVars
    /\ NoClientStep

\* while self.running is false: the finally of run() closes the consumer and
\* run() returns.
RunReturns ==
    /\ pc = "loop"
    /\ ~running
    /\ pc' = "stopped"
    /\ consumer' = close_consumer(consumer)
    /\ consumer_closing' = TRUE
    /\ UNCHANGED subscribed
    /\ UNCHANGED <<topic, position, committed, db, running, gen, session, records, idx,
                   consecutive_errors, backoff_time, crashes, cycle>>
    /\ UNCHANGED historyVars
    /\ NoClientStep

\* The steps run() takes by itself, but for the messages of a batch.
RunSteps ==
    \/ LoopHead
    \/ SessionRaises
    \/ GetManyReturns
    \/ BatchCommit
    \/ SleepOver
    \/ RunReturns

\* ENABLED BatchMessage.
BatchMessageEnabled ==
    /\ pc = "batch" /\ idx <= Len(records)
    /\ LET message == deserialize_message(records[idx])
       IN (message # None /\ process_message(db, message).raised /\ running)
            => consecutive_errors < MaxErrors

CancelNext ==
    \/ RunStarted
    \/ LoopHead
    \/ SessionRaises
    \/ GetManyReturns
    \/ BatchMessage
    \/ BatchCommit
    \/ SleepOver
    \/ StopCalled
    \/ RunReturns

\* One run of the worker with stop() from outside; the awaits of run() (the
\* poll with its timeout, the database calls, the commit, the sleep) end. The
\* last conjunct is WF_allVars(BatchMessage) with ENABLED written out.
SpecCancel ==
    /\ Init
    /\ [][CancelNext]_allVars
    /\ WF_allVars(RunSteps)
    /\ ([]<>~BatchMessageEnabled \/ []<><<BatchMessage>>_allVars)

\* ------------------------------------------------------------ claim C35

\* C35: once stop() was called run() starts no poll, and it returns with the
\* consumer closed, wherever in the loop stop() arrived.
C35_StopEndsRun ==
    /\ [][(InLoop /\ ~running) => ~(pc # "polling" /\ pc' = "polling")]_allVars
    /\ (InLoop /\ ~running) ~> (pc = "stopped" /\ consumer = "stopped")

\* run() has returned after a stop() that arrived in its first cycle, during
\* the poll, which then raised, or during the sleep after it.
C35_Witness ==
    /\ pc = "stopped"
    /\ consumer = "stopped"
    /\ ~running
    /\ gen = "suspended"
    /\ cycle = "failed"
    /\ consecutive_errors = 1
    /\ position = 0

====
